---------------------------- MODULE Spec2Model ----------------------------
(* Model of the Qlik Sense Engine API client                                *)
(* (src/qlik_sense_mcp_server/engine_api.py, class QlikEngineAPI).         *)
(*                                                                          *)
(* One client instance talks to an engine over a websocket.  The engine    *)
(* and the network are the environment: every connection attempt and every *)
(* request has a nondeterministic outcome.  An operation of the client is  *)
(* a sequence of steps, one per blocking call it makes; pc is the position *)
(* of the (single) caller inside the running operation.                    *)
(*                                                                          *)
(* Specifications:                                                          *)
(*   Spec         connect, disconnect and the session-object operations,    *)
(*                one step per request                                      *)
(*   SpecRpc      connect, disconnect and send_request, frame by frame      *)
(*   SpecOpen     connect, open_doc and open_doc_safe                       *)
(*   SpecCompile  the object definitions the query operations build         *)
(*   SpecTools    the worker threads of the tool layer (server.py) that     *)
(*                share the engine client                                   *)
(*   SpecDecode   what the operations make of the matrix of a layout        *)
(*   SpecAnalyze  get_sheets_with_objects: the walk over sheets and their   *)
(*                child objects                                             *)
EXTENDS Integers, Sequences, FiniteSets, TLC

(***************************************************************************)
(* Bounds of the model                                                     *)
(***************************************************************************)
\* largest integer the QLIK_WS_RETRIES environment variable is given
MaxRetriesEnv == 5
\* number of top-level calls (connect, disconnect, operations) in one run
MaxCalls == 2
\* number of calls (connect, disconnect, send_request) in one run of the
\* request layer alone
MaxRpcCalls == 4
\* number of push frames one send_request is made to read
MaxPushes == 2
\* number of calls (connect, open_doc, open_doc_safe) in one run of the
\* document operations
MaxOpenCalls == 3
\* longest dimension list and longest measure list of a query
MaxDims == 1
MaxMeasures == 2
\* requests other calls make between two calls of a query operation
MaxSeq == 2
\* worker threads of the tool layer, and tool calls served in one run
MaxWorkers == 2
MaxToolCalls == 3

(***************************************************************************)
(* Values                                                                  *)
(***************************************************************************)
\* Python None for a socket reference / a handle
NoSocket == 0
NoHandle == 0
\* the document handle callers pass to the operations
AppHandles == {1}
\* handles the engine hands out for session objects
ObjectHandles == {2, 3}

VARIABLES
    ws,               \* self.ws: NoSocket or the id of a socket
    request_id,       \* self.request_id
    ws_retries,       \* self.ws_retries
    socks,            \* every socket ever opened: <<[url, open]>>, id = index
    pc,               \* position of the caller
    op,               \* the running operation
    calls,            \* number of top-level calls made so far
    \* locals of connect
    endpoints_to_try, k, last_error, attempted, opened, conn_result,
    \* locals of a session-object operation
    args, app_handle, table_fields, obj_id, cube_handle, layout, result,
    sent,             \* requests written by the running operation, in order
    log,              \* levels of the logger calls of the running operation
    \* history: the client as each connect of an unbroken run of failed
    \* connects left it
    connect_failures,
    \* send_request, frame by frame
    rpc,              \* the request of the running send_request
    discarded,        \* frames the running send_request read and passed over
    reply,            \* what the running send_request returned or raised
    wire,             \* history: every request written to a socket, in order
    answered,         \* history: ids whose response frame has been read
    \* the tool layer
    worker,           \* the worker threads serving get_app_fields tool calls
    \* open_doc and open_doc_safe
    active_doc,       \* engine: the document open on a socket, with its handle
    opening,          \* locals of the running open: function, app_id, caught e
    open_result,      \* what the running open returned or raised
    first_open,       \* history: what the first open of active_doc returned
    \* the object definitions the query operations build
    query,            \* a call: function, arguments, request_id at the call
    compiled,         \* the definition built for it
    query2,           \* a later call of the same function
    compiled2,        \* the definition built for the later call
    \* the decoding of a layout
    hypercube,        \* the qHyperCube / qListObject of the layout
    engine_rows,      \* history: the matrix rows in the order the engine sent them
    decoded,          \* the call, and what the operation made of hypercube
    \* get_sheets_with_objects
    sheets,           \* what get_sheets returned
    sheet_i,          \* position of `for sheet in sheets`
    child_i,          \* position of `for child_obj in child_objects`
    obj_handle,       \* sheet_handle, then obj_handle: the handle GetObject gave
    detailed_objects, \* the objects of the current sheet processed so far
    detailed_sheets,  \* the sheets processed so far
    skipped,          \* history: the children passed over, <<sheet, child, why>>
    \* the read loop of send_request
    inbox,            \* frames the engine sent on the held socket, not read yet
    \* the OAuth token cache of the cloud client
    oauth_token,      \* self._oauth_token ("" for None)
    oauth_token_expires_at, \* self._oauth_token_expires_at
    clock,            \* time.time()
    token_call        \* the running _get_oauth_token: the cache and the time at
                      \* its start, whether it asked for a token, its outcome

clientVars == <<ws, request_id, ws_retries, socks>>
connVars == <<endpoints_to_try, k, last_error, attempted, opened, conn_result>>
opVars == <<args, app_handle, table_fields, obj_id, cube_handle, layout, result, sent,
           log>>
\* the variables of the other specifications of this module
rpcVars == <<rpc, discarded, reply, wire, answered>>
docVars == <<active_doc, opening, open_result, first_open>>
qcVars == <<query, compiled, query2, compiled2>>
decVars == <<hypercube, engine_rows, decoded>>
walkVars == <<sheets, sheet_i, child_i, obj_handle, detailed_objects, detailed_sheets,
             skipped>>
recvVars == <<inbox>>
tokenVars == <<oauth_token, oauth_token_expires_at, clock, token_call>>
extVars == <<rpcVars, worker, docVars, qcVars, decVars, walkVars, recvVars, tokenVars>>
\* what the actions of one specification leave alone of the others
otherThanRpc == <<worker, docVars, qcVars, decVars, walkVars, recvVars, tokenVars>>
otherThanTools == <<rpcVars, docVars, qcVars, decVars, walkVars, recvVars, tokenVars>>
otherThanOpen == <<rpcVars, worker, qcVars, decVars, walkVars, recvVars, tokenVars>>
otherThanCompile == <<rpcVars, worker, docVars, decVars, walkVars, recvVars, tokenVars>>
otherThanDecode == <<rpcVars, worker, docVars, qcVars, walkVars, recvVars, tokenVars>>
otherThanRecv == <<worker, docVars, qcVars, decVars, walkVars, tokenVars>>
otherThanToken == <<rpcVars, worker, docVars, qcVars, decVars, walkVars, recvVars>>
otherThanWalk == <<rpcVars, worker, docVars, qcVars, decVars, recvVars, tokenVars>>
vars == <<ws, request_id, ws_retries, socks, pc, op, calls,
          endpoints_to_try, k, last_error, attempted, opened, conn_result,
          args, app_handle, table_fields, obj_id, cube_handle, layout, result, sent,
          log, connect_failures, extVars>>

(***************************************************************************)
(* __init__: the retry budget read from QLIK_WS_RETRIES                    *)
(***************************************************************************)
\* the environment variable: unset/empty, not an integer, or an integer
RetriesEnvValues ==
    {[set |-> FALSE, valid |-> FALSE, n |-> 0],
     [set |-> TRUE, valid |-> FALSE, n |-> 0]}
    \cup {[set |-> TRUE, valid |-> TRUE, n |-> i] : i \in -1..MaxRetriesEnv}

\* int(retries_env) if retries_env else 2; ValueError -> 2
ParseRetries(env) ==
    IF ~env.set THEN 2
    ELSE IF ~env.valid THEN 2
    ELSE env.n

(***************************************************************************)
(* connect                                                                 *)
(***************************************************************************)
\* endpoints_all, in declared priority order
endpoints_all ==
    <<[scheme |-> "wss", path |-> "/app/engineData"],
      [scheme |-> "wss", path |-> "/app"],
      [scheme |-> "ws", path |-> "/app/engineData"],
      [scheme |-> "ws", path |-> "/app"]>>

Min(a, b) == IF a < b THEN a ELSE b
Max(a, b) == IF a > b THEN a ELSE b

\* mutant: the lower clamp is missing
EndpointCountNoClamp(retries) == Min(retries, Len(endpoints_all))

\* max(1, min(self.ws_retries, len(endpoints_all)))
EndpointCount(retries) == Max(1, Min(retries, Len(endpoints_all)))

\* the Python slice s[:n]: a negative n counts from the end
Slice(s, n) ==
    IF n >= 0 THEN SubSeq(s, 1, Min(n, Len(s)))
    ELSE SubSeq(s, 1, Max(Len(s) + n, 0))

\* endpoints_all[: max(1, min(self.ws_retries, len(endpoints_all)))]
EndpointsToTry(retries) == Slice(endpoints_all, EndpointCount(retries))

NoError == [url |-> [scheme |-> "", path |-> ""], kind |-> "none"]

NoConnResult == [raised |-> FALSE, embeds |-> NoError]

\* one pass of the loop over endpoints_to_try: the candidate, how the pass
\* ended and the socket it opened
Attempt(url, outcome, sock) == [url |-> url, outcome |-> outcome, sock |-> sock]

\* ws.close(): the socket is closed (an exception of close is swallowed)
CloseSocket(ss, s) == [ss EXCEPT ![s].open = FALSE]

OpenSockets == {s \in 1..Len(socks) : socks[s].open}

\* the library found the connection of socket s closed by the other side:
\* nothing more is sent or received on it
LoseSocket(ss, s, f) ==
    IF f = "WebSocketConnectionClosedException" THEN [ss EXCEPT ![s].lost = TRUE] ELSE ss

(***************************************************************************)
(* The engine's data, as far as the client looks at it                     *)
(***************************************************************************)
\* a cell's qNum / qFrequency: absent, the "NaN" sentinel, or a number
Absent == [tag |-> "absent", v |-> 0]
NaN == [tag |-> "NaN", v |-> 0]
Num(n) == [tag |-> "num", v |-> n]
\* Python None
Null == [tag |-> "null", v |-> 0]

Cell(text, num, freq) == [qText |-> text, qNum |-> num, qFrequency |-> freq]

\* hypercubes / list objects the engine may put into a layout:
\* qDataPages is a list of pages, a page's qMatrix a list of rows of cells
SampleCubes ==
    <<[qDataPages |-> <<>>, qcy |-> 0, qItems |-> <<>>],
      [qDataPages |-> << << <<Cell("US", Num(100), Num(3)), Cell("x", NaN, Absent)>>,
                            <<Cell("FR", Num(50), Absent)>> >> >>,
       qcy |-> 2,
       qItems |-> <<[qName |-> "i1", qIsReserved |-> FALSE, qIsConfig |-> FALSE]>>],
      [qDataPages |-> << << <<Cell("a", Absent, Num(1)), Cell("b", Num(2), Absent),
                              Cell("c", Num(3), Absent)>> >>,
                         << <<>>, <<Cell("d", NaN, Num(2))>> >> >>,
       qcy |-> 7,
       qItems |-> <<[qName |-> "i2", qIsReserved |-> TRUE, qIsConfig |-> FALSE],
                    [qName |-> "i3", qIsReserved |-> FALSE, qIsConfig |-> FALSE]>>],
      [qDataPages |-> << <<>> >>, qcy |-> 5, qItems |-> <<>>]>>

\* a GetLayout result: has it a qLayout, has that the key the operation
\* looks for, and is what is under that key of the type the decoder expects
Layouts ==
    {[qLayout |-> FALSE, shape |-> FALSE, wellFormed |-> FALSE, cube |-> 0],
     [qLayout |-> TRUE, shape |-> FALSE, wellFormed |-> FALSE, cube |-> 0],
     [qLayout |-> TRUE, shape |-> TRUE, wellFormed |-> FALSE, cube |-> 0]}
    \cup {[qLayout |-> TRUE, shape |-> TRUE, wellFormed |-> TRUE, cube |-> c] :
            c \in 1..Len(SampleCubes)}

\* a CreateSessionObject result: {}, {"qReturn": {}} or {"qReturn": {"qHandle": h}}
CreateResults ==
    {[qReturn |-> FALSE, qHandle |-> NoHandle], [qReturn |-> TRUE, qHandle |-> NoHandle]}
    \cup {[qReturn |-> TRUE, qHandle |-> h] : h \in ObjectHandles}

\* a GetTablesAndKeys result: the list qtr of tables with their fields
SampleTables ==
    {<<>>,
     <<[qName |-> "T1", qFields |-> <<"A", "B">>]>>,
     <<[qName |-> "T2", qFields |-> <<"A">>], [qName |-> "T1", qFields |-> <<"C">>]>>}

\* what makes send_request raise once the request is written
Failures == {"engine_error", "transport"}

(***************************************************************************)
(* The operations that create a session object, and their arguments        *)
(***************************************************************************)
DestroyingOps == {"get_table_data", "get_field_values", "get_field_statistics",
                  "create_data_export"}
ListOps == {"get_sheets", "_get_user_variables"}
SessionOps == DestroyingOps \cup {"create_hypercube"} \cup ListOps

\* max_rows: int = 1000 is the default of get_table_data
NoArgs == [table_name |-> "", field_name |-> "", fields |-> <<>>,
           format_type |-> "", nd |-> 0, nm |-> 0, max_rows |-> 1000]

\* the calls made: None and "" are both the empty name
OpCalls ==
    {[op |-> "get_table_data",
      args |-> [NoArgs EXCEPT !.table_name = t, !.max_rows = n]] :
        t \in {"", "T1", "T2"}, n \in {0, 1000}}
    \cup {[op |-> o, args |-> [NoArgs EXCEPT !.field_name = f]] :
        o \in {"get_field_values", "get_field_statistics"}, f \in {"F1"}}
    \cup {[op |-> "create_data_export",
           args |-> [NoArgs EXCEPT !.table_name = c[1], !.fields = c[2],
                                   !.format_type = c[3]]] :
        c \in {<<"", <<>>, "json">>, <<"T1", <<>>, "json">>,
               <<"", <<"A">>, "csv">>, <<"T1", <<"A", "B">>, "simple">>}}
    \cup {[op |-> "create_hypercube", args |-> [NoArgs EXCEPT !.nd = c[1], !.nm = c[2]]] :
        c \in {<<1, 1>>, <<0, 1>>}}
    \cup {[op |-> o, args |-> NoArgs] : o \in ListOps}

Digit(n) ==
    CASE n = 0 -> "0" [] n = 1 -> "1" [] n = 2 -> "2" [] n = 3 -> "3"
      [] n = 4 -> "4" [] n = 5 -> "5" [] OTHER -> "n"

\* mutant: the id carries the sequence counter of the client
CreateObjIdPerRequest(o, a) ==
    CASE o = "get_table_data" -> <<"table-data-", a.table_name, Digit(request_id)>>
      [] o = "get_field_values" -> <<"field-values-", a.field_name, Digit(request_id)>>
      [] o = "get_field_statistics" -> <<"field-stats-", a.field_name>>
      [] o = "create_data_export" ->
            <<"data-export-", IF a.table_name # "" THEN a.table_name ELSE "custom">>
      [] o = "create_hypercube" ->
            <<"hypercube-", Digit(a.nd), "d-", Digit(a.nm), "m", Digit(request_id)>>
      [] OTHER -> <<>>

\* the qInfo.qId an operation puts into the definition it creates (none
\* for the list operations, whose qInfo has a qType only)
CreateObjId(o, a) ==
    CASE o = "get_table_data" -> <<"table-data-", a.table_name>>
      [] o = "get_field_values" -> <<"field-values-", a.field_name>>
      [] o = "get_field_statistics" -> <<"field-stats-", a.field_name>>
      [] o = "create_data_export" ->
            <<"data-export-", IF a.table_name # "" THEN a.table_name ELSE "custom">>
      [] o = "create_hypercube" -> <<"hypercube-", Digit(a.nd), "d-", Digit(a.nm), "m">>
      [] OTHER -> <<>>

\* mutant: the export's destroy call without the 'custom' default
DestroyObjIdNoDefault(o, a) ==
    CASE o = "get_table_data" -> <<"table-data-", a.table_name>>
      [] o = "get_field_values" -> <<"field-values-", a.field_name>>
      [] o = "get_field_statistics" -> <<"field-stats-", a.field_name>>
      [] OTHER -> <<"data-export-", a.table_name>>

\* the id an operation passes to DestroySessionObject (built again from
\* the arguments, in both of its cleanup calls)
DestroyObjId(o, a) ==
    CASE o = "get_table_data" -> <<"table-data-", a.table_name>>
      [] o = "get_field_values" -> <<"field-values-", a.field_name>>
      [] o = "get_field_statistics" -> <<"field-stats-", a.field_name>>
      [] OTHER ->
            <<"data-export-", IF a.table_name # "" THEN a.table_name ELSE "custom">>

(***************************************************************************)
(* get_fields and the decoders                                             *)
(***************************************************************************)
RECURSIVE TableFields(_, _)
\* the field names get_fields lists for table t, in the engine's order
TableFields(qtr, t) ==
    IF qtr = <<>> THEN <<>>
    ELSE (IF Head(qtr).qName = t THEN Head(qtr).qFields ELSE <<>>)
         \o TableFields(Tail(qtr), t)

\* available_tables of get_table_data: table name -> its field names
AvailableTables(qtr) ==
    [t \in {qtr[i].qName : i \in 1..Len(qtr)} |-> TableFields(qtr, t)]

RECURSIVE FlattenRows(_)
\* for page in qDataPages: for row in page qMatrix
FlattenRows(pages) ==
    IF pages = <<>> THEN <<>> ELSE Head(pages) \o FlattenRows(Tail(pages))

\* the engine fills qDataPages from qInitialDataFetch: a layout holds at
\* most qHeight = max_rows rows
WithinWindow(l, a) ==
    l.wellFormed => Len(FlattenRows(SampleCubes[l.cube].qDataPages)) <= a.max_rows

\* cell.get("qNum", None) if cell.get("qNum") != "NaN" else None
DecodeNumeric(cell) ==
    IF cell.qNum # NaN
    THEN (IF cell.qNum = Absent THEN Null ELSE cell.qNum)
    ELSE Null

\* cell.get("qNum", None)
RawNumeric(cell) == IF cell.qNum = Absent THEN Null ELSE cell.qNum

TableCell(cell) == [text |-> cell.qText, numeric |-> DecodeNumeric(cell)]

\* the positions of a row that have a header: i < len(headers)
Mapped(row, headers) == 1..Min(Len(row), Len(headers))

\* the cell that ends up under each header when the loop over a row assigns
\* row_data[headers[i]]: a later cell under the same header overwrites an
\* earlier one
RowCells(row, headers) ==
    [h \in {headers[i] : i \in Mapped(row, headers)} |->
        LET last == CHOOSE i \in Mapped(row, headers) :
                        /\ headers[i] = h
                        /\ \A j \in Mapped(row, headers) : headers[j] = h => j <= i
        IN row[last]]

\* row_data of get_table_data and of the "json" export
RowData(row, headers) ==
    [h \in DOMAIN RowCells(row, headers) |-> TableCell(RowCells(row, headers)[h])]

\* row_data of the "simple" export: the text only
RowText(row, headers) ==
    [h \in DOMAIN RowCells(row, headers) |-> RowCells(row, headers)[h].qText]

\* get_table_data: one row_data per matrix row
DecodeTable(cube, headers) ==
    LET rows == FlattenRows(cube.qDataPages)
    IN [i \in 1..Len(rows) |-> RowData(rows[i], headers)]

\* a value_info that sets "frequency" without looking for the cell's key
ValueInfoAlwaysFrequency(cell) ==
    [value |-> cell.qText, numeric_value |-> RawNumeric(cell),
     frequency |-> IF cell.qFrequency = Absent THEN Num(0) ELSE cell.qFrequency]

\* value_info; "frequency" is set only if "qFrequency" in cell
ValueInfo(cell) ==
    [value |-> cell.qText, numeric_value |-> RawNumeric(cell),
     frequency |-> cell.qFrequency]

RECURSIVE ValuesOf(_)
\* get_field_values: the first cell of every non-empty row
ValuesOf(rows) ==
    IF rows = <<>> THEN <<>>
    ELSE (IF Len(Head(rows)) > 0 THEN <<ValueInfo(Head(rows)[1])>> ELSE <<>>)
         \o ValuesOf(Tail(rows))

DecodeValues(cube) == ValuesOf(FlattenRows(cube.qDataPages))

stats_labels ==
    <<"unique_values", "total_count", "non_null_count", "min_value", "max_value",
      "avg_value", "sum_value", "median_value", "mode_value", "std_deviation">>

\* get_field_statistics: statistics[stats_labels[i]] from the i-th cell of
\* every row, a later row overwriting an earlier one (the two percentages
\* derived from total_count and non_null_count are not part of this value)
DecodeStatistics(cube) ==
    LET rows == FlattenRows(cube.qDataPages)
        has(i) == {r \in 1..Len(rows) : Len(rows[r]) >= i}
    IN [l \in {stats_labels[i] : i \in {j \in 1..Len(stats_labels) : has(j) # {}}} |->
           LET i == CHOOSE j \in 1..Len(stats_labels) : stats_labels[j] = l
               r == CHOOSE x \in has(i) : \A y \in has(i) : y <= x
           IN TableCell(rows[r][i])]

\* create_data_export: the row in the requested format; a format that is
\* none of the three appends nothing
ExportRow(row, headers, format_type) ==
    CASE format_type = "json" -> <<RowData(row, headers)>>
      [] format_type = "csv" -> <<[i \in 1..Len(row) |-> row[i].qText]>>
      [] format_type = "simple" -> <<RowText(row, headers)>>
      [] OTHER -> <<>>

RECURSIVE ExportRows(_, _, _)
ExportRows(rows, headers, format_type) ==
    IF rows = <<>> THEN <<>>
    ELSE ExportRow(Head(rows), headers, format_type)
         \o ExportRows(Tail(rows), headers, format_type)

DecodeExport(cube, headers, format_type) ==
    ExportRows(FlattenRows(cube.qDataPages), headers, format_type)

RECURSIVE UserVariables(_)
\* _get_user_variables: the items that are neither reserved nor config
UserVariables(items) ==
    IF items = <<>> THEN <<>>
    ELSE (IF ~Head(items).qIsReserved /\ ~Head(items).qIsConfig
          THEN <<[name |-> Head(items).qName]>> ELSE <<>>)
         \o UserVariables(Tail(items))

\* what an operation makes of a well-formed layout
Decode(o, a, headers, cube, handle) ==
    CASE o = "get_table_data" -> DecodeTable(cube, headers)
      [] o = "get_field_values" -> DecodeValues(cube)
      [] o = "get_field_statistics" -> DecodeStatistics(cube)
      [] o = "create_data_export" -> DecodeExport(cube, headers, a.format_type)
      [] o = "create_hypercube" -> [hypercube_handle |-> handle, hypercube_data |-> cube]
      [] o = "get_sheets" -> cube.qItems
      [] OTHER -> UserVariables(cube.qItems)

(***************************************************************************)
(* Results                                                                 *)
(***************************************************************************)
NoData == <<>>

\* {"error": ..., ...}; details is set by the except clause of the operation
ErrorResult(e, details) ==
    [kind |-> "error", error |-> e, details |-> details,
     cleanup_warning |-> FALSE, data |-> NoData]

\* the decoded record, with cleanup_warning when the destroy call raised
DataResult(d, warning) ==
    [kind |-> "data", error |-> "", details |-> FALSE,
     cleanup_warning |-> warning, data |-> d]

\* a plain list (get_sheets, _get_user_variables)
ListResult(d) ==
    [kind |-> "list", error |-> "", details |-> FALSE,
     cleanup_warning |-> FALSE, data |-> d]

\* {"message": "Please specify table_name parameter", "available_tables": ...}
MessageResult(d) ==
    [kind |-> "message", error |-> "", details |-> FALSE,
     cleanup_warning |-> FALSE, data |-> d]

NoResult ==
    [kind |-> "none", error |-> "", details |-> FALSE,
     cleanup_warning |-> FALSE, data |-> NoData]

\* the except clause at the end of an operation
ExceptResult(o, e) ==
    IF o \in ListOps THEN ListResult(<<>>) ELSE ErrorResult(e, TRUE)

\* the "qReturn"/"qHandle" check after CreateSessionObject found no handle
NoHandleResult(o) ==
    IF o \in ListOps THEN ListResult(<<>>) ELSE ErrorResult("create_failed", FALSE)

\* the request as written to the socket, and how the call ended: with a
\* result, or raising after an error frame or a transport failure
Request(id, handle, method, param, outcome) ==
    [id |-> id, handle |-> handle, method |-> method, param |-> param,
     outcome |-> outcome]

(***************************************************************************)
(* Initial state: a freshly constructed client, nothing running            *)
(***************************************************************************)
\* no layout received (yet)
NoLayout == [qLayout |-> FALSE, shape |-> FALSE, wellFormed |-> FALSE, cube |-> -1]

\* the worker threads, and a thread that serves no tool call
Workers == 1..MaxWorkers
IdleWorker == [pos |-> "idle", app |-> "", call |-> 0, inside |-> "", raised |-> ""]

\* no document is open; no open is running
NoDoc == [sock |-> NoSocket, app |-> "", handle |-> NoHandle]
NoOpening == [fn |-> "", app_id |-> "", e |-> ""]
NoOpenResult == [kind |-> "none", qHandle |-> NoHandle, raised |-> ""]

\* no query call; no definition built
NoQuery == [fn |-> "", dimensions |-> <<>>, measures |-> <<>>, max_rows |-> 0,
            args |-> NoArgs, request_id |-> 0]
NoWindow == [qTop |-> 0, qLeft |-> 0, qHeight |-> 0, qWidth |-> 0]
NoDefinition == [status |-> "none", qId |-> <<>>, qType |-> "", qDimensions |-> <<>>,
                 qMeasures |-> <<>>, qInitialDataFetch |-> NoWindow]

\* no layout has been decoded
NoCube == [qDataPages |-> <<>>]
NoDecoded == [fn |-> "", format_type |-> "", headers |-> <<>>, data |-> <<>>,
              keys |-> <<>>, hypercube_data |-> <<>>, count |-> <<>>]

\* no send_request is running
\* no _get_oauth_token is running
NoTokenCall ==
    [kind |-> "none", value |-> "", requested |-> FALSE, token |-> "", expires_at |-> 0,
     current_time |-> 0]

NoRpc == [method |-> "", handle |-> NoHandle, id |-> 0, ws |-> NoSocket, socks |-> 0]
NoFrame == [id |-> -1, keys |-> {}, mentions |-> FALSE, payload |-> ""]
NoReply == [kind |-> "none", class |-> "", cause |-> "", value |-> "", frame |-> NoFrame]

IdleLocals ==
    /\ endpoints_to_try = <<>>
    /\ k = 0
    /\ last_error = NoError
    /\ attempted = <<>>
    /\ opened = {}
    /\ conn_result = NoConnResult
    /\ args = NoArgs
    /\ app_handle = NoHandle
    /\ table_fields = <<>>
    /\ obj_id = <<>>
    /\ cube_handle = NoHandle
    /\ layout = NoLayout
    /\ result = NoResult
    /\ sent = <<>>
    /\ log = <<>>

Init ==
    /\ ws = NoSocket
    /\ request_id = 0
    /\ \E env \in RetriesEnvValues : ws_retries = ParseRetries(env)
    /\ socks = <<>>
    /\ pc = "idle"
    /\ op = "none"
    /\ calls = 0
    /\ IdleLocals
    /\ connect_failures = <<>>
    /\ rpc = NoRpc
    /\ discarded = <<>>
    /\ reply = NoReply
    /\ wire = <<>>
    /\ answered = {}
    /\ worker = [t \in Workers |-> IdleWorker]
    /\ active_doc = NoDoc
    /\ opening = NoOpening
    /\ open_result = NoOpenResult
    /\ first_open = NoDoc
    /\ query = NoQuery
    /\ compiled = NoDefinition
    /\ query2 = NoQuery
    /\ compiled2 = NoDefinition
    /\ hypercube = NoCube
    /\ engine_rows = <<>>
    /\ decoded = NoDecoded
    /\ sheets = <<>>
    /\ sheet_i = 0
    /\ child_i = 0
    /\ obj_handle = NoHandle
    /\ detailed_objects = <<>>
    /\ detailed_sheets = <<>>
    /\ skipped = <<>>
    /\ inbox = <<>>
    /\ oauth_token = ""
    /\ oauth_token_expires_at = 0
    /\ clock = 0
    /\ token_call = NoTokenCall

(***************************************************************************)
(* connect: one step per blocking call (create_connection, initial recv).  *)
(* The TLS context and the headers built before the loop are taken to be   *)
(* well-formed; connect may be called while a socket is already held.      *)
(***************************************************************************)
ConnectBegin ==
    /\ pc = "idle"
    /\ calls' = calls + 1
    /\ op' = "connect"
    /\ pc' = "connect_loop"
    /\ endpoints_to_try' = EndpointsToTry(ws_retries)
    /\ k' = 1
    /\ last_error' = NoError
    /\ attempted' = <<>>
    /\ opened' = {}
    /\ conn_result' = NoConnResult
    /\ UNCHANGED <<clientVars, opVars>>
    /\ UNCHANGED connect_failures
    /\ UNCHANGED extVars

\* connect is called, within the number of calls of a run
ConnectStart ==
    /\ calls < MaxCalls
    /\ ConnectBegin

\* mutant: only the first error is kept
ConnectRefusedKeepFirst ==
    /\ pc = "connect_loop"
    /\ k <= Len(endpoints_to_try)
    /\ attempted' = Append(attempted, Attempt(endpoints_to_try[k], "refused", NoSocket))
    /\ last_error' = IF last_error = NoError
                     THEN [url |-> endpoints_to_try[k], kind |-> "refused"]
                     ELSE last_error
    /\ IF ws # NoSocket
       THEN /\ socks' = CloseSocket(socks, ws)
            /\ ws' = NoSocket
       ELSE UNCHANGED <<ws, socks>>
    /\ k' = k + 1
    /\ UNCHANGED <<request_id, ws_retries, pc, op, calls, endpoints_to_try,
                   opened, conn_result, opVars>>
    /\ UNCHANGED connect_failures
    /\ UNCHANGED extVars

\* create_connection raises: self.ws still holds what it held before the
\* call; the handler closes and clears it when it is set
ConnectRefused ==
    /\ pc = "connect_loop"
    /\ k <= Len(endpoints_to_try)
    /\ attempted' = Append(attempted, Attempt(endpoints_to_try[k], "refused", NoSocket))
    /\ last_error' = [url |-> endpoints_to_try[k], kind |-> "refused"]
    /\ IF ws # NoSocket
       THEN /\ socks' = CloseSocket(socks, ws)
            /\ ws' = NoSocket
       ELSE UNCHANGED <<ws, socks>>
    /\ k' = k + 1
    /\ UNCHANGED <<request_id, ws_retries, pc, op, calls, endpoints_to_try,
                   opened, conn_result, opVars>>
    /\ UNCHANGED connect_failures
    /\ UNCHANGED extVars

\* mutant: a new connection starts its sequence ids again
ConnectOpenedNewCounter ==
    /\ pc = "connect_loop"
    /\ k <= Len(endpoints_to_try)
    /\ attempted' = Append(attempted,
                           Attempt(endpoints_to_try[k], "pending", Len(socks) + 1))
    /\ socks' = Append(socks, [url |-> endpoints_to_try[k], open |-> TRUE, lost |-> FALSE])
    /\ opened' = opened \cup {Len(socks) + 1}
    /\ ws' = Len(socks) + 1
    /\ pc' = "connect_recv"
    /\ request_id' = 0
    /\ UNCHANGED <<ws_retries, op, calls, endpoints_to_try, k,
                   last_error, conn_result, opVars>>
    /\ UNCHANGED connect_failures
    /\ UNCHANGED extVars

\* create_connection returns a socket, which self.ws now refers to
ConnectOpened ==
    /\ pc = "connect_loop"
    /\ k <= Len(endpoints_to_try)
    /\ attempted' = Append(attempted,
                           Attempt(endpoints_to_try[k], "pending", Len(socks) + 1))
    /\ socks' = Append(socks, [url |-> endpoints_to_try[k], open |-> TRUE, lost |-> FALSE])
    /\ opened' = opened \cup {Len(socks) + 1}
    /\ ws' = Len(socks) + 1
    /\ pc' = "connect_recv"
    /\ UNCHANGED <<request_id, ws_retries, op, calls, endpoints_to_try, k,
                   last_error, conn_result, opVars>>
    /\ UNCHANGED connect_failures
    /\ UNCHANGED extVars

\* mutant: the reference is cleared but the socket is not closed
ConnectRecvFailedNoClose ==
    /\ pc = "connect_recv"
    /\ attempted' = [attempted EXCEPT ![Len(attempted)].outcome = "recv"]
    /\ last_error' = [url |-> endpoints_to_try[k], kind |-> "recv"]
    /\ ws' = NoSocket
    /\ k' = k + 1
    /\ pc' = "connect_loop"
    /\ UNCHANGED <<request_id, ws_retries, socks, op, calls, endpoints_to_try,
                   opened, conn_result, opVars>>
    /\ UNCHANGED connect_failures
    /\ UNCHANGED extVars

\* the initial recv raises: close the socket, clear the reference, go on
ConnectRecvFailed ==
    /\ pc = "connect_recv"
    /\ attempted' = [attempted EXCEPT ![Len(attempted)].outcome = "recv"]
    /\ last_error' = [url |-> endpoints_to_try[k], kind |-> "recv"]
    /\ socks' = CloseSocket(socks, ws)
    /\ ws' = NoSocket
    /\ k' = k + 1
    /\ pc' = "connect_loop"
    /\ UNCHANGED <<request_id, ws_retries, op, calls, endpoints_to_try,
                   opened, conn_result, opVars>>
    /\ UNCHANGED connect_failures
    /\ UNCHANGED extVars

\* mutant: the return after the initial recv is missing
ConnectOkNoReturn ==
    /\ pc = "connect_recv"
    /\ attempted' = [attempted EXCEPT ![Len(attempted)].outcome = "ok"]
    /\ k' = k + 1
    /\ pc' = "connect_loop"
    /\ UNCHANGED <<clientVars, op, calls, endpoints_to_try, last_error,
                   opened, conn_result, opVars>>
    /\ UNCHANGED connect_failures
    /\ UNCHANGED extVars

\* the initial recv succeeds: return
ConnectOk ==
    /\ pc = "connect_recv"
    /\ attempted' = [attempted EXCEPT ![Len(attempted)].outcome = "ok"]
    /\ conn_result' = [raised |-> FALSE, embeds |-> NoError]
    /\ pc' = "done"
    /\ UNCHANGED <<clientVars, op, calls, endpoints_to_try, k, last_error,
                   opened, opVars>>
    /\ connect_failures' = <<>>
    /\ UNCHANGED extVars

\* what a caller can observe of the client after a connect that raised an
\* exception of class error
ClientState(error) == [ws |-> ws, request_id |-> request_id, error |-> error]

\* mutant: the last underlying exception is re-raised as it is
ConnectRaiseLastError ==
    /\ pc = "connect_loop"
    /\ k > Len(endpoints_to_try)
    /\ conn_result' = [raised |-> TRUE, embeds |-> last_error]
    /\ pc' = "done"
    /\ UNCHANGED <<clientVars, op, calls, endpoints_to_try, k, last_error,
                   attempted, opened, opVars>>
    /\ connect_failures' = Append(connect_failures, ClientState(last_error.kind))
    /\ UNCHANGED extVars

\* the loop ran out of candidates: raise ConnectionError(... last_error)
ConnectRaise ==
    /\ pc = "connect_loop"
    /\ k > Len(endpoints_to_try)
    /\ conn_result' = [raised |-> TRUE, embeds |-> last_error]
    /\ pc' = "done"
    /\ UNCHANGED <<clientVars, op, calls, endpoints_to_try, k, last_error,
                   attempted, opened, opVars>>
    /\ connect_failures' = Append(connect_failures, ClientState("ConnectionError"))
    /\ UNCHANGED extVars

(***************************************************************************)
(* The operations that create a session object: one step per request       *)
(***************************************************************************)
\* send_request up to ws.send: the next id is taken and the request written
Write(method, handle, param, outcome) ==
    /\ request_id' = request_id + 1
    /\ sent' = Append(sent, Request(request_id + 1, handle, method, param, outcome))

\* a send_request that writes its request although the client has no socket
NotConnectedWritesAnyway ==
    /\ ws = NoSocket
    /\ request_id' = request_id + 1
    /\ sent' = Append(sent, Request(request_id + 1, app_handle, "DestroySessionObject",
                                    obj_id, "transport"))

\* send_request on a client without a socket raises before anything else
NotConnected ==
    /\ ws = NoSocket
    /\ UNCHANGED <<request_id, sent>>

\* max_fields = 20 in get_table_data, table_fields[:50] in create_data_export
MaxFields(o) == IF o = "get_table_data" THEN 20 ELSE 50

\* the logger call an operation makes: get_sheets alone has any
Logged(o, level) == IF o = "get_sheets" THEN <<level>> ELSE <<>>

\* get_sheets after GetLayout: warning "No sheet list in layout", the
\* exception a malformed list raises, or info "Found n sheets"
LayoutLevel(l) ==
    IF ~(l.qLayout /\ l.shape) THEN "warning"
    ELSE IF ~l.wellFormed THEN "error" ELSE "info"

\* the operation is called
OpStart ==
    /\ pc = "idle"
    /\ calls < MaxCalls
    /\ calls' = calls + 1
    /\ \E c \in OpCalls, h \in AppHandles :
        /\ op' = c.op
        /\ args' = c.args
        /\ app_handle' = h
        /\ table_fields' = c.args.fields
        /\ IF c.op = "create_data_export" /\ c.args.fields = <<>> /\ c.args.table_name = ""
           THEN /\ result' = ErrorResult("need_table_or_fields", FALSE)
                /\ pc' = "done"
           ELSE /\ result' = NoResult
                /\ pc' = IF c.op = "get_table_data"
                             \/ (c.op = "create_data_export" /\ c.args.fields = <<>>)
                          THEN "fields" ELSE "create"
    /\ UNCHANGED <<clientVars, connVars, obj_id, cube_handle, layout, sent, log>>
    /\ connect_failures' = <<>>
    /\ UNCHANGED extVars

\* get_fields (GetTablesAndKeys), and what the operation does with it
GetFields ==
    /\ pc = "fields"
    /\ \/ /\ NotConnected
          /\ result' = ErrorResult("not_connected", TRUE)
          /\ pc' = "done"
          /\ UNCHANGED table_fields
       \/ /\ ws # NoSocket
          /\ \/ \E f \in Failures :
                   /\ Write("GetTablesAndKeys", app_handle, <<>>, f)
                   /\ result' = ErrorResult(f, TRUE)
                   /\ pc' = "done"
                   /\ UNCHANGED table_fields
             \/ \E qtr \in SampleTables :
                   LET found == TableFields(qtr, args.table_name) IN
                   /\ Write("GetTablesAndKeys", app_handle, <<>>, "result")
                   /\ IF args.table_name = ""
                      THEN /\ result' = MessageResult(AvailableTables(qtr))
                           /\ pc' = "done"
                           /\ UNCHANGED table_fields
                      ELSE IF found = <<>>
                      THEN /\ result' = ErrorResult("table_not_found", FALSE)
                           /\ pc' = "done"
                           /\ UNCHANGED table_fields
                      ELSE /\ table_fields' = Slice(found, MaxFields(op))
                           /\ pc' = "create"
                           /\ UNCHANGED result
    /\ UNCHANGED <<ws, ws_retries, socks, op, calls, connVars, args, app_handle,
                   obj_id, cube_handle, layout, log>>
    /\ UNCHANGED connect_failures
    /\ UNCHANGED extVars

\* CreateSessionObject and the check of its result
CreateSessionObject ==
    /\ pc = "create"
    /\ \/ /\ NotConnected
          /\ result' = ExceptResult(op, "not_connected")
          /\ log' = log \o Logged(op, "error")
          /\ pc' = "done"
          /\ UNCHANGED <<obj_id, cube_handle>>
       \/ /\ ws # NoSocket
          /\ obj_id' = CreateObjId(op, args)
          /\ \/ \E f \in Failures :
                   /\ Write("CreateSessionObject", app_handle, CreateObjId(op, args), f)
                   /\ result' = ExceptResult(op, f)
                   /\ log' = log \o Logged(op, "error")
                   /\ pc' = "done"
                   /\ UNCHANGED cube_handle
             \/ \E r \in CreateResults :
                   /\ Write("CreateSessionObject", app_handle,
                            CreateObjId(op, args), "result")
                   /\ IF r.qReturn /\ r.qHandle # NoHandle
                      THEN /\ cube_handle' = r.qHandle
                           /\ pc' = "layout"
                           /\ UNCHANGED <<result, log>>
                      ELSE \* "Failed to create ..."; in _get_user_variables a
                           \* qReturn without qHandle is a KeyError, caught
                           /\ result' = NoHandleResult(op)
                           /\ log' = log \o Logged(op, "warning")
                           /\ pc' = "done"
                           /\ UNCHANGED cube_handle
    /\ UNCHANGED <<ws, ws_retries, socks, op, calls, connVars, args, app_handle,
                   table_fields, layout>>
    /\ UNCHANGED connect_failures
    /\ UNCHANGED extVars

\* an AfterLayout that takes a layout without rows for a failure
AfterLayoutEmptyIsError(l) ==
    IF ~(l.qLayout /\ l.shape)
    THEN IF op \in DestroyingOps
         THEN /\ result' = ErrorResult("no_shape", FALSE)
              /\ pc' = "destroy_struct"
         ELSE /\ result' = IF op \in ListOps THEN ListResult(<<>>)
                           ELSE ErrorResult("no_shape", FALSE)
              /\ pc' = "done"
    ELSE IF ~l.wellFormed
    THEN /\ result' = ExceptResult(op, "decode_error")
         /\ pc' = "done"
    ELSE LET d == Decode(op, args, table_fields, SampleCubes[l.cube], cube_handle) IN
         IF op \in DestroyingOps
         THEN /\ result' = IF FlattenRows(SampleCubes[l.cube].qDataPages) = <<>>
                           THEN ErrorResult("no_rows", FALSE)
                           ELSE DataResult(d, FALSE)
              /\ pc' = "destroy"
         ELSE /\ result' = IF op \in ListOps THEN ListResult(d) ELSE DataResult(d, FALSE)
              /\ pc' = "done"

\* what follows a GetLayout result l
AfterLayout(l) ==
    IF ~(l.qLayout /\ l.shape)
    THEN IF op \in DestroyingOps
         THEN /\ result' = ErrorResult("no_shape", FALSE)
              /\ pc' = "destroy_struct"
         ELSE /\ result' = IF op \in ListOps THEN ListResult(<<>>)
                           ELSE ErrorResult("no_shape", FALSE)
              /\ pc' = "done"
    ELSE IF ~l.wellFormed
    THEN \* processing the layout raises
         /\ result' = ExceptResult(op, "decode_error")
         /\ pc' = "done"
    ELSE LET d == Decode(op, args, table_fields, SampleCubes[l.cube], cube_handle) IN
         IF op \in DestroyingOps
         THEN /\ result' = DataResult(d, FALSE)
              /\ pc' = "destroy"
         ELSE /\ result' = IF op \in ListOps THEN ListResult(d) ELSE DataResult(d, FALSE)
              /\ pc' = "done"

\* a GetLayout addressed to the document instead of the new object
LayoutTargetIsApp == app_handle

\* send_request("GetLayout", [], handle=cube_handle)
LayoutTarget == cube_handle

\* GetLayout on the new object, the shape check and the decoding
GetLayout ==
    /\ pc = "layout"
    /\ \/ /\ NotConnected
          /\ result' = ExceptResult(op, "not_connected")
          /\ log' = log \o Logged(op, "error")
          /\ pc' = "done"
          /\ UNCHANGED layout
       \/ /\ ws # NoSocket
          /\ \/ \E f \in Failures :
                   /\ Write("GetLayout", LayoutTarget, <<>>, f)
                   /\ result' = ExceptResult(op, f)
                   /\ log' = log \o Logged(op, "error")
                   /\ pc' = "done"
                   /\ UNCHANGED layout
             \/ \E l \in {x \in Layouts : WithinWindow(x, args)} :
                   /\ Write("GetLayout", LayoutTarget, <<>>, "result")
                   /\ layout' = l
                   /\ log' = log \o Logged(op, LayoutLevel(l))
                   /\ AfterLayout(l)
    /\ UNCHANGED <<ws, ws_retries, socks, op, calls, connVars, args, app_handle,
                   table_fields, obj_id, cube_handle>>
    /\ UNCHANGED connect_failures
    /\ UNCHANGED extVars

\* a cleanup that is tried again while the destroy call fails
AfterDestroyRetries(outcome) == IF outcome = "result" THEN "done" ELSE pc

\* after the cleanup call, whatever its outcome, the operation returns
AfterDestroy(outcome) == "done"

\* the cleanup call, after a layout without the shape (its exception is
\* passed over) or after decoding (its exception becomes cleanup_warning)
DestroySessionObject ==
    /\ pc \in {"destroy_struct", "destroy"}
    /\ \E outcome \in {"not_connected", "result"} \cup Failures :
        /\ \/ NotConnected /\ outcome = "not_connected"
           \/ /\ ws # NoSocket
              /\ outcome # "not_connected"
              /\ Write("DestroySessionObject", app_handle, DestroyObjId(op, args),
                       outcome)
        /\ result' = IF pc = "destroy"
                     THEN [result EXCEPT !.cleanup_warning = (outcome # "result")]
                     ELSE result
        /\ pc' = AfterDestroy(outcome)
    /\ UNCHANGED <<ws, ws_retries, socks, op, calls, connVars, args, app_handle,
                   table_fields, obj_id, cube_handle, layout, log>>
    /\ UNCHANGED connect_failures
    /\ UNCHANGED extVars

(***************************************************************************)
(* disconnect                                                              *)
(***************************************************************************)
CloseHeldSocket ==
    /\ pc = "idle"
    /\ calls' = calls + 1
    /\ IF ws # NoSocket
       THEN /\ socks' = CloseSocket(socks, ws)
            /\ ws' = NoSocket
       ELSE UNCHANGED <<ws, socks>>
    /\ UNCHANGED <<request_id, ws_retries, pc, op, connVars, opVars>>
    /\ connect_failures' = <<>>
    /\ UNCHANGED extVars

\* disconnect is called on the client (by another thread) while an
\* operation is between two of its requests
DisconnectDuringCall ==
    /\ pc \in {"fields", "create", "layout", "destroy_struct", "destroy"}
    /\ ws # NoSocket
    /\ socks' = CloseSocket(socks, ws)
    /\ ws' = NoSocket
    /\ UNCHANGED <<request_id, ws_retries, pc, op, calls, connVars, opVars>>
    /\ UNCHANGED connect_failures
    /\ UNCHANGED extVars

\* disconnect is called, within the number of calls of a run
Disconnect ==
    /\ calls < MaxCalls
    /\ CloseHeldSocket

\* the running call returns to its caller
Return ==
    /\ pc = "done"
    /\ pc' = "idle"
    /\ op' = "none"
    /\ endpoints_to_try' = <<>>
    /\ k' = 0
    /\ last_error' = NoError
    /\ attempted' = <<>>
    /\ opened' = {}
    /\ conn_result' = NoConnResult
    /\ args' = NoArgs
    /\ app_handle' = NoHandle
    /\ table_fields' = <<>>
    /\ obj_id' = <<>>
    /\ cube_handle' = NoHandle
    /\ layout' = NoLayout
    /\ result' = NoResult
    /\ sent' = <<>>
    /\ log' = <<>>
    /\ UNCHANGED <<clientVars, calls>>
    /\ UNCHANGED connect_failures
    /\ UNCHANGED extVars

Next ==
    \/ ConnectStart
    \/ ConnectRefused
    \/ ConnectOpened
    \/ ConnectRecvFailed
    \/ ConnectOk
    \/ ConnectRaise
    \/ Disconnect
    \/ DisconnectDuringCall
    \/ OpStart
    \/ GetFields
    \/ CreateSessionObject
    \/ GetLayout
    \/ DestroySessionObject
    \/ Return

Spec == Init /\ [][Next]_vars

(***************************************************************************)
(* Properties of the session-object operations                             *)
(***************************************************************************)
\* the positions in sent of the requests of a method
Requests(method) == {i \in 1..Len(sent) : sent[i].method = method}

\* the running operation has returned (its result is in result)
Returned(ops) == pc = "done" /\ op \in ops

\* CreateSessionObject returned a handle to the running operation
GotHandle == cube_handle # NoHandle

\* CreateSessionObject returned a result without qReturn.qHandle
GotNoHandle ==
    /\ cube_handle = NoHandle
    /\ \E i \in Requests("CreateSessionObject") : sent[i].outcome = "result"

\* a GetLayout result arrived and lacks qLayout or the expected key
LayoutLacksShape == layout # NoLayout /\ ~(layout.qLayout /\ layout.shape)

\* the cleanup call was made and raised
DestroyFailed ==
    \E i \in Requests("DestroySessionObject") : sent[i].outcome # "result"

\* C1: every session-object operation that got a handle from
\* CreateSessionObject has sent exactly one DestroySessionObject when it
\* returns.
C1_ExactlyOneDestroy ==
    (Returned(SessionOps) /\ GotHandle) =>
        Cardinality(Requests("DestroySessionObject")) = 1

\* C2: in the operations that clean up, a DestroySessionObject for the
\* created object has been sent on every exit path after the handle was
\* returned, also when GetLayout raised or decoding the layout raised.
C2_DestroyOnEveryExit ==
    (Returned(DestroyingOps) /\ GotHandle) =>
        \E i \in Requests("DestroySessionObject") : sent[i].param = obj_id

\* C3: when GetLayout returns a layout without the expected shape, every
\* hypercube / list-object operation, create_hypercube included, returns the
\* structural error and has sent a DestroySessionObject for the object's id.
C3_StructuralErrorDestroys ==
    (Returned(DestroyingOps \cup {"create_hypercube"}) /\ LayoutLacksShape) =>
        /\ result.kind = "error" /\ result.error = "no_shape"
        /\ \E i \in Requests("DestroySessionObject") : sent[i].param = obj_id

\* C4: a failed DestroySessionObject is swallowed and annotated: after a
\* successful decode the result is the decoded data plus a cleanup
\* diagnostic, never an error; after a structural error the result carries
\* the cleanup diagnostic as well.
C4_DestroyFailureAnnotated ==
    (Returned(DestroyingOps) /\ DestroyFailed) =>
        /\ result.cleanup_warning
        /\ IF LayoutLacksShape
           THEN result.kind = "error" /\ result.error = "no_shape"
           ELSE /\ result.kind = "data"
                /\ result.data = Decode(op, args, table_fields,
                                         SampleCubes[layout.cube], cube_handle)

\* C5: every DestroySessionObject request carries the qId that an earlier
\* CreateSessionObject request of the same operation carried and is sent on
\* the same document handle, while the operation is still running.
C5_DestroyMatchesCreate ==
    \A i \in Requests("DestroySessionObject") :
        /\ op \in SessionOps /\ pc # "idle"
        /\ sent[i].param # <<>>
        /\ \E j \in Requests("CreateSessionObject") :
              /\ j < i
              /\ sent[j].param = sent[i].param
              /\ sent[j].handle = sent[i].handle

\* an export without a table name has destroyed its object 'custom'
C5_Witness ==
    /\ Returned({"create_data_export"})
    /\ args.table_name = ""
    /\ Requests("DestroySessionObject") # {}

\* C6: when CreateSessionObject returns a result without qReturn.qHandle,
\* the operation returns an error result, having sent exactly one
\* CreateSessionObject and no GetLayout and no DestroySessionObject.
C6_NoHandleReportedNotRetried ==
    (Returned(SessionOps) /\ GotNoHandle) =>
        /\ result.kind = "error"
        /\ Cardinality(Requests("CreateSessionObject")) = 1
        /\ Requests("GetLayout") = {}
        /\ Requests("DestroySessionObject") = {}

(***************************************************************************)
(* Properties of connect                                                   *)
(***************************************************************************)
\* the retry budget clamped into 1..4
ClampedBudget ==
    IF ws_retries < 1 THEN 1 ELSE IF ws_retries > 4 THEN 4 ELSE ws_retries

\* C7: connect attempts the candidates in priority order and returns on the
\* first one whose connection and initial receive both succeed: nothing is
\* attempted after it, and the socket held on return is the open socket
\* to that candidate.
C7_FirstSuccessReturned ==
    op = "connect" =>
        /\ \A i \in 1..Len(attempted) : attempted[i].url = endpoints_all[i]
        /\ \A i \in 1..(Len(attempted) - 1) : attempted[i].outcome \in {"refused", "recv"}
        /\ (pc = "done" /\ ~conn_result.raised) =>
              /\ attempted # <<>>
              /\ attempted[Len(attempted)].outcome = "ok"
              /\ ws = attempted[Len(attempted)].sock
              /\ ws # NoSocket
              /\ socks[ws].open
              /\ socks[ws].url = attempted[Len(attempted)].url

\* connect returned on the third candidate after two failures
C7_Witness ==
    /\ op = "connect" /\ pc = "done" /\ ~conn_result.raised
    /\ Len(attempted) = 3
    /\ attempted[1].outcome = "refused"
    /\ attempted[2].outcome = "recv"

\* C8: when every attempted candidate failed, connect raises
\* ConnectionError embedding the error of the last attempted candidate, and
\* the client holds no socket; with four candidates refused the error is
\* that of the fourth.
C8_AllFailedRaisesLast ==
    (op = "connect" /\ pc = "done" /\ conn_result.raised) =>
        /\ attempted # <<>>
        /\ \A i \in 1..Len(attempted) : attempted[i].outcome \in {"refused", "recv"}
        /\ conn_result.embeds = [url |-> attempted[Len(attempted)].url,
                                  kind |-> attempted[Len(attempted)].outcome]
        /\ ws = NoSocket
        /\ Len(attempted) = 4 => conn_result.embeds.url = endpoints_all[4]

\* all four candidates were refused
C8_Witness ==
    /\ op = "connect" /\ pc = "done" /\ conn_result.raised
    /\ Len(attempted) = 4
    /\ \A i \in 1..4 : attempted[i].outcome = "refused"

\* C9: the candidates connect goes through are the first N entries of the
\* priority list, N being the retry budget clamped into 1..4: what is
\* attempted is a prefix of those N, all N of them when connect fails, and
\* exactly one candidate for a budget of 0 or less.
C9_FirstNCandidates ==
    op = "connect" =>
        /\ endpoints_to_try = SubSeq(endpoints_all, 1, ClampedBudget)
        /\ Len(attempted) <= ClampedBudget
        /\ \A i \in 1..Len(attempted) : attempted[i].url = endpoints_all[i]
        /\ (pc = "done" /\ conn_result.raised) => Len(attempted) = ClampedBudget
        /\ (pc = "done" /\ ws_retries <= 0) => Len(attempted) = 1

\* a connect with a budget of 0 or less failed after its one candidate
C9_Witness ==
    /\ op = "connect" /\ pc = "done" /\ conn_result.raised
    /\ ws_retries <= 0
    /\ Len(attempted) = 1

\* C10: a candidate that failed after its socket was opened has that socket
\* closed and the reference cleared before the next candidate is attempted:
\* of the sockets a connect call opened at most one is open, it is the one
\* self.ws refers to, and the socket of a failed candidate is never the one
\* held on return.
C10_FailedSocketClosed ==
    op = "connect" =>
        /\ Cardinality({s \in opened : socks[s].open}) <= 1
        /\ \A s \in opened : socks[s].open => s = ws
        /\ \A i \in 1..Len(attempted) :
              attempted[i].outcome = "recv" =>
                  /\ ~socks[attempted[i].sock].open
                  /\ attempted[i].sock # ws
        /\ pc = "connect_loop" => ws \notin opened

\* a second candidate is tried after the first one's initial recv failed
C10_Witness ==
    /\ op = "connect"
    /\ Len(attempted) >= 2
    /\ attempted[1].outcome = "recv"
    /\ attempted[2].sock # NoSocket


(***************************************************************************)
(* C11: connect called twice in a row against the same unreachable         *)
(* candidates fails both times with a ConnectionError, and the client      *)
(* after the second failure is as it was after the first: no socket, the   *)
(* sequence counter unchanged.                                             *)
(***************************************************************************)
C11_RepeatedFailureSameState ==
    \A i \in 1..Len(connect_failures) :
        /\ connect_failures[i].error = "ConnectionError"
        /\ connect_failures[i].ws = NoSocket
        /\ connect_failures[i] = connect_failures[1]

\* the second of two failed connects has raised, after a socket of it had
\* been opened and closed
C11_Witness ==
    /\ Len(connect_failures) = 2
    /\ op = "connect"
    /\ pc = "done"
    /\ opened # {}


(***************************************************************************)
(* send_request, frame by frame.  The socket delivers push notifications   *)
(* and the responses to the requests written on it; a response that was    *)
(* not read by the call it answers stays on the socket.                    *)
(***************************************************************************)
\* the methods and handles callers pass
RpcMethods == {"GetDocList", "GetLayout"}
\* what a result or an error member of a frame holds
Payloads == {"a", "b"}
\* response.get("result", {}) of a frame without a result member
EmptyDict == "{}"

\* an asynchronous notification: no result and no error member; its text
\* may hold the words result or error inside a value
PushFrames ==
    {[id |-> 0, keys |-> {}, mentions |-> m, payload |-> "push"] : m \in BOOLEAN}

\* the response to request i: a result, an error, or both members
ResponseFrames(ids) ==
    {[id |-> i, keys |-> ks, mentions |-> TRUE, payload |-> q] :
        i \in ids, ks \in {{"result"}, {"error"}, {"result", "error"}}, q \in Payloads}

\* ids written on socket s and not answered yet
Unanswered(s) ==
    {wire[i].id : i \in {j \in 1..Len(wire) : wire[j].sock = s}} \ answered

\* "result" in data or "error" in data, data being the text of the frame
TextHasResultOrError(frame) == frame.mentions

\* the ways ws.send and ws.recv fail: the exception classes of the
\* websocket library, which send_request lets through
TransportFailures ==
    {"WebSocketConnectionClosedException", "WebSocketTimeoutException"}

Raised(class, cause, value, frame) ==
    [kind |-> "raised", class |-> class, cause |-> cause, value |-> value,
     frame |-> frame]

Returned_(value, frame) ==
    [kind |-> "returned", class |-> "", cause |-> "", value |-> value, frame |-> frame]

\* mutant: the error member is not looked at
ResolveNoErrorCheck(frame) ==
    Returned_(IF "result" \in frame.keys THEN frame.payload ELSE EmptyDict, frame)

\* response = json.loads(data); an error member raises
\* Exception(f"Engine API error: {response['error']}"), otherwise
\* response.get("result", {}) is returned
Resolve(frame) ==
    IF "error" \in frame.keys
    THEN Raised("Exception", "engine", frame.payload, frame)
    ELSE Returned_(IF "result" \in frame.keys THEN frame.payload ELSE EmptyDict, frame)

\* mutant: every failure of the socket is wrapped like an engine error
TransportRaisedAsEngine(f) == Raised("Exception", "transport", f, NoFrame)

\* an exception of ws.send or ws.recv leaves send_request as it is
TransportRaised(f) == Raised(f, "transport", f, NoFrame)

\* connect and disconnect, called next to send_request
RpcConnect ==
    /\ calls < MaxRpcCalls
    /\ ConnectBegin

RpcDisconnect ==
    /\ calls < MaxRpcCalls
    /\ CloseHeldSocket

\* connect returns to its caller
ConnectReturn ==
    /\ op = "connect"
    /\ Return

\* a send_request that builds the request, and so takes an id, before it
\* looks at self.ws
RaiseNotConnectedTakesId(method, handle) ==
    /\ ws = NoSocket
    /\ rpc' = [method |-> method, handle |-> handle, id |-> request_id + 1,
               ws |-> ws, socks |-> Len(socks)]
    /\ reply' = Raised("ConnectionError", "not_connected", "", NoFrame)
    /\ pc' = "done"
    /\ request_id' = request_id + 1
    /\ UNCHANGED <<wire, socks>>

\* if not self.ws: raise ConnectionError("Not connected to Engine API")
RaiseNotConnected(method, handle) ==
    /\ ws = NoSocket
    /\ rpc' = [method |-> method, handle |-> handle, id |-> 0,
               ws |-> ws, socks |-> Len(socks)]
    /\ reply' = Raised("ConnectionError", "not_connected", "", NoFrame)
    /\ pc' = "done"
    /\ UNCHANGED <<request_id, wire, socks>>

\* send_request up to ws.send
SendRequest ==
    /\ pc = "idle"
    /\ calls < MaxRpcCalls
    /\ calls' = calls + 1
    /\ op' = "send_request"
    /\ \E method \in RpcMethods, handle \in AppHandles :
        \/ RaiseNotConnected(method, handle)
        \/ \* the id is taken, ws.send raises
           /\ ws # NoSocket
           /\ request_id' = request_id + 1
           /\ rpc' = [method |-> method, handle |-> handle, id |-> request_id + 1,
                      ws |-> ws, socks |-> Len(socks)]
           /\ \E f \in TransportFailures :
                 /\ reply' = TransportRaised(f)
                 /\ socks' = LoseSocket(socks, ws, f)
           /\ pc' = "done"
           /\ UNCHANGED wire
        \/ \* the id is taken, the request is written
           /\ ws # NoSocket
           /\ ~socks[ws].lost
           /\ UNCHANGED socks
           /\ request_id' = request_id + 1
           /\ rpc' = [method |-> method, handle |-> handle, id |-> request_id + 1,
                      ws |-> ws, socks |-> Len(socks)]
           /\ wire' = Append(wire, [sock |-> ws, id |-> request_id + 1])
           /\ reply' = NoReply
           /\ pc' = "recv"
    /\ connect_failures' = <<>>
    /\ UNCHANGED <<ws, ws_retries, connVars, opVars, discarded, answered>>
    /\ UNCHANGED otherThanRpc

\* one turn of the loop: data = self.ws.recv() gives a frame
RecvFrame ==
    /\ pc = "recv"
    /\ \E frame \in PushFrames \cup ResponseFrames(Unanswered(ws)) :
        /\ frame.id = 0 => Len(discarded) < MaxPushes
        /\ answered' = IF frame.id = 0 THEN answered ELSE answered \cup {frame.id}
        /\ IF TextHasResultOrError(frame)
           THEN /\ reply' = Resolve(frame)
                /\ pc' = "done"
                /\ UNCHANGED discarded
           ELSE /\ discarded' = Append(discarded, frame)
                /\ UNCHANGED <<reply, pc>>
    /\ UNCHANGED <<clientVars, op, calls, connVars, opVars, connect_failures,
                   rpc, wire>>
    /\ UNCHANGED otherThanRpc

\* one turn of the loop: self.ws.recv() raises
RecvFails ==
    /\ pc = "recv"
    /\ \E f \in TransportFailures :
          /\ reply' = TransportRaised(f)
          /\ socks' = LoseSocket(socks, ws, f)
    /\ pc' = "done"
    /\ UNCHANGED <<request_id, ws, ws_retries, op, calls, connVars, opVars,
                   connect_failures, rpc, discarded, wire, answered>>
    /\ UNCHANGED otherThanRpc

\* send_request returns to its caller
RpcReturn ==
    /\ pc = "done"
    /\ op = "send_request"
    /\ pc' = "idle"
    /\ op' = "none"
    /\ rpc' = NoRpc
    /\ discarded' = <<>>
    /\ reply' = NoReply
    /\ UNCHANGED <<clientVars, calls, connVars, opVars, connect_failures,
                   wire, answered>>
    /\ UNCHANGED otherThanRpc

InitRpc ==
    /\ Init
    /\ ws_retries \in 1..2

NextRpc ==
    \/ RpcConnect
    \/ ConnectRefused
    \/ ConnectOpened
    \/ ConnectRecvFailed
    \/ ConnectOk
    \/ ConnectRaise
    \/ ConnectReturn
    \/ RpcDisconnect
    \/ SendRequest
    \/ RecvFrame
    \/ RecvFails
    \/ RpcReturn

SpecRpc == InitRpc /\ [][NextRpc]_vars


(***************************************************************************)
(* C12: over any sequence of send_request, connect and disconnect calls    *)
(* on one client, every request written to a socket carries an id          *)
(* strictly greater than the id of every request written before it.        *)
(***************************************************************************)
C12_IdsStrictlyIncrease ==
    \A i, j \in 1..Len(wire) : i < j => wire[i].id < wire[j].id

\* two requests were written, the second on a later connection
C12_Witness ==
    /\ Len(wire) >= 2
    /\ wire[1].sock # wire[2].sock

(***************************************************************************)
(* C13: send_request passes over every frame that has neither a result     *)
(* nor an error member, and the frame it resolves with is the first one    *)
(* that has a result or an error member, whose result payload it returns;  *)
(* a push frame that only mentions those words is not taken as response.   *)
(***************************************************************************)
C13_FirstKeyedFrameResolves ==
    (op = "send_request" /\ pc = "done" /\ reply.frame # NoFrame) =>
        /\ reply.frame.keys # {}
        /\ \A i \in 1..Len(discarded) : discarded[i].keys = {}
        /\ reply.kind = "returned" => reply.value = reply.frame.payload

(***************************************************************************)
(* C14: when the frame resolved for a call has an error member,            *)
(* send_request raises an error that holds the engine's error payload,     *)
(* and returns no result value.                                            *)
(***************************************************************************)
C14_ErrorFrameRaises ==
    (op = "send_request" /\ pc = "done" /\ "error" \in reply.frame.keys) =>
        /\ reply.kind = "raised"
        /\ reply.cause = "engine"
        /\ reply.value = reply.frame.payload

\* an error frame resolved the call after a push frame had been passed over
C14_Witness ==
    /\ op = "send_request"
    /\ pc = "done"
    /\ "error" \in reply.frame.keys
    /\ discarded # <<>>

(***************************************************************************)
(* C15: when the socket fails while send_request sends or receives, the    *)
(* call raises a failure of another class than an engine error, opens no   *)
(* connection, and leaves the client holding what it held.                 *)
(***************************************************************************)
C15_TransportFailureSurfaces ==
    (op = "send_request" /\ pc = "done" /\ reply.cause = "transport") =>
        /\ reply.kind = "raised"
        /\ reply.class \in TransportFailures
        /\ \A f \in ResponseFrames({rpc.id}) :
               "error" \in f.keys => Resolve(f).class # reply.class
        /\ ws = rpc.ws
        /\ Len(socks) = rpc.socks

\* the socket failed while the call was reading frames
C15_Witness ==
    /\ op = "send_request"
    /\ pc = "done"
    /\ reply.cause = "transport"
    /\ rpc.id \in {wire[i].id : i \in 1..Len(wire)}
    /\ discarded # <<>>


(***************************************************************************)
(* The tool layer (server.py): get_app_fields tool calls run                *)
(* _get_app_fields in worker threads (asyncio.to_thread), which share the  *)
(* one engine client of the server.  inside is the method of the engine    *)
(* client a thread is executing the body of.                               *)
(***************************************************************************)
AppIds == {"app1", "app2"}

\* the calls of the engine fallback, in order: connect before the try,
\* open_doc and get_fields inside it, disconnect in its finally
FallbackCalls == <<"connect", "open_doc", "get_fields", "disconnect">>

\* the keyword arguments the fallback passes in each call
CallKeywords ==
    [connect |-> {"auth_token"}, open_doc |-> {}, get_fields |-> {"handle"},
     disconnect |-> {}]

\* the parameters of the methods of QlikEngineAPI, self aside
Signature ==
    [connect |-> {"app_id"}, open_doc |-> {"app_id", "no_data"},
     get_fields |-> {"app_handle"}, disconnect |-> {}]

\* mutant: every call of the fallback is accepted by the method it names
CallBindsAny(callee) == TRUE

\* Python binds a call when every keyword names a parameter; otherwise the
\* call raises TypeError before the body of the method runs
CallBinds(callee) == CallKeywords[callee] \subseteq Signature[callee]

\* the part of the engine client the body of a method runs
EngineKind(callee) ==
    IF callee \in {"open_doc", "get_fields"} THEN "send_request" ELSE callee

\* a tool call is handed to a worker thread
WorkerStart(t) ==
    /\ worker[t].pos = "idle"
    /\ calls < MaxToolCalls
    /\ calls' = calls + 1
    /\ \E a \in AppIds : worker' = [worker EXCEPT ![t] = [IdleWorker EXCEPT
                                        !.pos = "rest", !.app = a]]
    /\ UNCHANGED <<clientVars, pc, op, connVars, opVars, connect_failures, otherThanTools>>

\* cloud_api.get_app_fields, and the test for tables named Unknown
WorkerRest(t) ==
    /\ worker[t].pos = "rest"
    /\ \E has_unknown_tables \in BOOLEAN :
        worker' = [worker EXCEPT ![t].pos =
                      IF has_unknown_tables THEN "token" ELSE "return"]
    /\ UNCHANGED <<clientVars, pc, op, calls, connVars, opVars, connect_failures,
                   otherThanTools>>

\* cloud_api._get_oauth_token returns a token or raises
WorkerToken(t) ==
    /\ worker[t].pos = "token"
    /\ \/ worker' = [worker EXCEPT ![t].pos = "engine", ![t].call = 1]
       \/ worker' = [worker EXCEPT ![t].pos = "except", ![t].raised = "token"]
    /\ UNCHANGED <<clientVars, pc, op, calls, connVars, opVars, connect_failures,
                   otherThanTools>>

\* where an exception raised by call number c of the fallback goes: from
\* inside the try to the finally (disconnect) first, otherwise to the except
AfterRaise(w, c, e) ==
    IF c \in {2, 3}
    THEN [w EXCEPT !.call = 4, !.inside = "", !.raised = e]
    ELSE [w EXCEPT !.pos = "except", !.inside = "", !.raised = e]

\* where the fallback goes when call number c has returned
AfterReturn(w, c) ==
    IF c < 4 THEN [w EXCEPT !.call = c + 1, !.inside = ""]
    ELSE [w EXCEPT !.pos = IF w.raised = "" THEN "return" ELSE "except",
                   !.inside = ""]

\* the next step of the engine fallback of thread t: a call is made (and
\* bound to the method), or the body of the method it is inside ends
WorkerEngineStep(t) ==
    /\ worker[t].pos = "engine"
    /\ LET w == worker[t]
           c == w.call
           callee == FallbackCalls[c]
       IN  IF w.inside = ""
           THEN /\ worker' = [worker EXCEPT ![t] =
                                 IF CallBinds(callee)
                                 THEN [w EXCEPT !.inside = EngineKind(callee)]
                                 ELSE AfterRaise(w, c, "TypeError")]
                /\ UNCHANGED <<ws, socks, request_id>>
           ELSE \E ok \in BOOLEAN :
                /\ worker' = [worker EXCEPT ![t] =
                                 IF ok \/ callee = "get_fields"
                                 THEN AfterReturn(w, c)
                                 ELSE AfterRaise(w, c, "Exception")]
                /\ IF callee = "connect" /\ ok
                   THEN /\ socks' = Append(socks, [url |-> endpoints_all[1],
                                                   open |-> TRUE, lost |-> FALSE])
                        /\ ws' = Len(socks) + 1
                   ELSE IF callee \in {"connect", "disconnect"} /\ ws # NoSocket
                   THEN /\ socks' = CloseSocket(socks, ws)
                        /\ ws' = NoSocket
                   ELSE UNCHANGED <<ws, socks>>
                /\ request_id' = IF w.inside = "send_request" /\ ws # NoSocket
                                 THEN request_id + 1 ELSE request_id
    /\ UNCHANGED <<ws_retries, pc, op, calls, connVars, opVars, connect_failures,
                   otherThanTools>>

\* except Exception: the error is put into the REST result
WorkerExcept(t) ==
    /\ worker[t].pos = "except"
    /\ worker' = [worker EXCEPT ![t].pos = "return"]
    /\ UNCHANGED <<clientVars, pc, op, calls, connVars, opVars, connect_failures,
                   otherThanTools>>

\* _get_app_fields returns and the thread is free again
WorkerReturn(t) ==
    /\ worker[t].pos = "return"
    /\ worker' = [worker EXCEPT ![t] = IdleWorker]
    /\ UNCHANGED <<clientVars, pc, op, calls, connVars, opVars, connect_failures,
                   otherThanTools>>

NextTools ==
    \/ \E t \in Workers : WorkerStart(t)
    \/ \E t \in Workers : WorkerRest(t)
    \/ \E t \in Workers : WorkerToken(t)
    \/ \E t \in Workers : WorkerEngineStep(t)
    \/ \E t \in Workers : WorkerExcept(t)
    \/ \E t \in Workers : WorkerReturn(t)

SpecTools == Init /\ [][NextTools]_vars

OpenFns == {"open_doc", "open_doc_safe"}
\* handle of send_request for the global methods
GlobalHandle == -1
\* the name a document list shows for a document
DocNames == {"Sales"}

\* the entries GetDocList gives: qHandle may be missing from an entry; when
\* it is there it is the handle of the open document
DocEntries ==
    {[qDocId |-> a, qDocName |-> n, qHandle |-> h] :
        a \in AppIds, n \in DocNames, h \in {Absent, Num(active_doc.handle)}}

DocLists ==
    {<<>>} \cup {<<d>> : d \in DocEntries}
    \cup {p \in DocEntries \X DocEntries : p[1].qDocId # p[2].qDocId}

\* "already open" in str(e).lower()
SaysAlreadyOpen(e) == e = "already_open"

\* doc.get("qHandle", -1)
QHandleOf(doc) == IF doc.qHandle = Absent THEN -1 ELSE doc.qHandle.v

\* the test of the scan of the document list
DocMatches(fn, doc, app_id) ==
    \/ doc.qDocId = app_id
    \/ fn = "open_doc_safe" /\ doc.qDocName = app_id

\* the handle the scan returns: of the first entry that matches; NoHandle
\* when none does
FirstMatchHandle(fn, doc_list, app_id) ==
    LET found == {i \in 1..Len(doc_list) : DocMatches(fn, doc_list[i], app_id)} IN
    IF found = {} THEN NoHandle
    ELSE QHandleOf(doc_list[CHOOSE i \in found : \A j \in found : i <= j])

OpenReturned(h) == [kind |-> "returned", qHandle |-> h, raised |-> ""]
\* an open that raises an error of its own in place of the one it caught
OpenRaisedWrapped(e) ==
    [kind |-> "raised", qHandle |-> NoHandle,
     raised |-> IF e = "already_open" THEN "recovery_failed" ELSE "open_failed"]

\* raise e
OpenRaised(e) == [kind |-> "raised", qHandle |-> NoHandle, raised |-> e]

OpenConnect ==
    /\ calls < MaxOpenCalls
    /\ ConnectBegin

\* open_doc or open_doc_safe is called
OpenStart ==
    /\ pc = "idle"
    /\ calls < MaxOpenCalls
    /\ calls' = calls + 1
    /\ \E fn \in OpenFns, a \in AppIds :
        /\ op' = fn
        /\ opening' = [fn |-> fn, app_id |-> a, e |-> ""]
    /\ open_result' = NoOpenResult
    /\ pc' = "opendoc"
    /\ connect_failures' = <<>>
    /\ UNCHANGED <<clientVars, connVars, opVars, active_doc, first_open,
                   otherThanOpen>>

\* send_request("OpenDoc", ...) and the except clause around it
OpenDocRequest ==
    /\ pc = "opendoc"
    /\ \/ /\ NotConnected
          /\ open_result' = OpenRaised("not_connected")
          /\ pc' = "done"
          /\ UNCHANGED <<opening, active_doc, first_open>>
       \/ /\ ws # NoSocket
          /\ \/ \E f \in Failures :
                   /\ Write("OpenDoc", GlobalHandle, opening.app_id, f)
                   /\ open_result' = OpenRaised(f)
                   /\ pc' = "done"
                   /\ UNCHANGED <<opening, active_doc, first_open>>
             \/ /\ active_doc.sock = ws
                /\ active_doc.app = opening.app_id
                /\ Write("OpenDoc", GlobalHandle, opening.app_id, "already_open")
                /\ opening' = [opening EXCEPT !.e = "already_open"]
                /\ pc' = IF opening.fn = "open_doc" THEN "doclist" ELSE "active"
                /\ UNCHANGED <<open_result, active_doc, first_open>>
             \/ /\ active_doc.sock # ws
                /\ \E h \in AppHandles :
                     /\ Write("OpenDoc", GlobalHandle, opening.app_id, "result")
                     /\ active_doc' = [sock |-> ws, app |-> opening.app_id,
                                       handle |-> h]
                     /\ first_open' = [sock |-> ws, app |-> opening.app_id,
                                       handle |-> h]
                     /\ open_result' = OpenReturned(h)
                /\ pc' = "done"
                /\ UNCHANGED opening
    /\ UNCHANGED <<ws, ws_retries, socks, op, calls, connVars, args, app_handle,
                   table_fields, obj_id, cube_handle, layout, result, log,
                   connect_failures, otherThanOpen>>

\* open_doc_safe: get_active_doc, which gives {} when its request fails
GetActiveDocRequest ==
    /\ pc = "active"
    /\ \/ \E f \in Failures :
             /\ Write("GetActiveDoc", GlobalHandle, <<>>, f)
             /\ pc' = "doclist"
             /\ UNCHANGED open_result
       \/ /\ Write("GetActiveDoc", GlobalHandle, <<>>, "result")
          /\ open_result' = OpenReturned(active_doc.handle)
          /\ pc' = "done"
    /\ UNCHANGED <<ws, ws_retries, socks, op, calls, connVars, args, app_handle,
                   table_fields, obj_id, cube_handle, layout, result, log,
                   connect_failures, opening, active_doc, first_open,
                   otherThanOpen>>

\* get_doc_list, which gives [] when its request fails, and the scan; the
\* caught e is raised again when nothing matches
GetDocListRequest ==
    /\ pc = "doclist"
    /\ \/ \E f \in Failures :
             /\ Write("GetDocList", GlobalHandle, <<>>, f)
             /\ open_result' = OpenRaised(opening.e)
       \/ \E doc_list \in DocLists :
             LET h == FirstMatchHandle(opening.fn, doc_list, opening.app_id) IN
             /\ Write("GetDocList", GlobalHandle, doc_list, "result")
             /\ open_result' = IF h = NoHandle THEN OpenRaised(opening.e)
                                ELSE OpenReturned(h)
    /\ pc' = "done"
    /\ UNCHANGED <<ws, ws_retries, socks, op, calls, connVars, args, app_handle,
                   table_fields, obj_id, cube_handle, layout, result, log,
                   connect_failures, opening, active_doc, first_open,
                   otherThanOpen>>

\* the caller takes app_result["qReturn"]["qHandle"] for the document
\* handle and creates a session object on it (get_app_details calling
\* _get_user_variables)
OpenedAppRequest ==
    /\ pc = "done"
    /\ op \in OpenFns
    /\ open_result.kind = "returned"
    /\ ws # NoSocket
    /\ Requests("CreateSessionObject") = {}
    /\ \E outcome \in {"result"} \cup Failures :
          Write("CreateSessionObject", open_result.qHandle, <<>>, outcome)
    /\ UNCHANGED <<ws, ws_retries, socks, pc, op, calls, connVars, args, app_handle,
                   table_fields, obj_id, cube_handle, layout, result, log,
                   connect_failures, docVars, otherThanOpen>>

\* the open returns to its caller
OpenReturn ==
    /\ pc = "done"
    /\ op \in OpenFns
    /\ pc' = "idle"
    /\ op' = "none"
    /\ sent' = <<>>
    /\ opening' = NoOpening
    /\ open_result' = NoOpenResult
    /\ UNCHANGED <<clientVars, calls, connVars, args, app_handle, table_fields,
                   obj_id, cube_handle, layout, result, log, connect_failures,
                   active_doc, first_open, otherThanOpen>>

InitOpen ==
    /\ Init
    /\ ws_retries \in 1..2

NextOpen ==
    \/ OpenConnect
    \/ ConnectRefused
    \/ ConnectOpened
    \/ ConnectRecvFailed
    \/ ConnectOk
    \/ ConnectRaise
    \/ ConnectReturn
    \/ OpenStart
    \/ OpenDocRequest
    \/ GetActiveDocRequest
    \/ GetDocListRequest
    \/ OpenedAppRequest
    \/ OpenReturn

SpecOpen == InitOpen /\ [][NextOpen]_vars

(***************************************************************************)
(* C17: when OpenDoc fails because the document is already open on the     *)
(* connection and the engine answers the recovery requests (the document   *)
(* being in its list), open_doc and open_doc_safe return the handle the    *)
(* first open returned, and do not raise.                                  *)
(***************************************************************************)
RecoveryAnswered ==
    /\ \A i \in 2..Len(sent) : sent[i].outcome = "result"
    /\ \A i \in Requests("GetDocList") :
           \E n \in 1..Len(sent[i].param) : sent[i].param[n].qDocId = opening.app_id

C17_AlreadyOpenRecoversHandle ==
    (op \in OpenFns /\ pc = "done" /\ SaysAlreadyOpen(opening.e) /\ RecoveryAnswered) =>
        /\ open_result.kind = "returned"
        /\ open_result.qHandle = first_open.handle


(***************************************************************************)
(* The object definitions built by create_hypercube, get_pivot_table_data  *)
(* and calculate_expression, and the object ids of the operations that     *)
(* name their object.  A dict key that may be missing holds <<>> or <<v>>. *)
(***************************************************************************)
NoValue == <<>>
Some(v) == <<v>>
\* d.get(key, default)
Get(o, default) == IF o = NoValue THEN default ELSE o[1]

Fields == {"F1", "F2"}
Expressions == {"Sum(X)"}
\* the row limits callers pass; 1000 is the default of max_rows
RowLimits == {10, 1000}
\* qHeight of calculate_expression, which takes no row limit
CalculationRows == 1000

\* a sort preference a caller gives for a dimension: a dict with some keys
UserDimSorts ==
    {[qSortByNumeric |-> Some(1), qSortByAscii |-> NoValue,
      qSortByExpression |-> NoValue, qExpression |-> NoValue]}

\* a dimension: a bare field name (str), or a dict with field and maybe sort_by
DimSpecs ==
    {[str |-> TRUE, field |-> f, sort_by |-> NoValue] : f \in Fields}
    \cup {[str |-> FALSE, field |-> f, sort_by |-> sb] :
             f \in Fields, sb \in {NoValue} \cup {Some(u) : u \in UserDimSorts}}

\* a measure: a bare expression, or a dict with expression and maybe label
MeasureSpecs ==
    {[str |-> TRUE, expression |-> e, label |-> NoValue, sort_by |-> NoValue] :
        e \in Expressions}
    \cup {[str |-> FALSE, expression |-> e, label |-> l, sort_by |-> NoValue] :
             e \in Expressions, l \in {NoValue, Some(<<"Total">>)}}

\* the lists of at most n elements of S
ListsOf(S, n) == UNION {[1..m -> S] : m \in 0..n}

\* the sort_by given to a bare field name
BareDimSort ==
    [qSortByNumeric |-> Some(0), qSortByAscii |-> Some(1),
     qSortByExpression |-> Some(0), qExpression |-> Some("")]

\* mutant: a dict without sort_by is sorted descending
DictDimSortDescending ==
    [qSortByNumeric |-> Some(0), qSortByAscii |-> Some(-1),
     qSortByExpression |-> Some(0), qExpression |-> Some("")]

\* the sort_by put into a dict that has none
DictDimSort ==
    [qSortByNumeric |-> Some(0), qSortByAscii |-> Some(1),
     qSortByExpression |-> Some(0), qExpression |-> Some("")]

\* the sort_by given to a bare expression, and put into a dict that has none
BareMeasureSort == [qSortByNumeric |-> Some(-1)]
DictMeasureSort == [qSortByNumeric |-> Some(-1)]

\* converted_dimensions.append(...)
ConvertDimension(dim) ==
    IF dim.str
    THEN [field |-> dim.field, sort_by |-> BareDimSort]
    ELSE [field |-> dim.field,
          sort_by |-> IF dim.sort_by = NoValue THEN DictDimSort ELSE dim.sort_by[1]]

\* converted_measures.append(...)
ConvertMeasure(measure) ==
    IF measure.str
    THEN [expression |-> measure.expression, label |-> NoValue,
          sort_by |-> BareMeasureSort]
    ELSE [expression |-> measure.expression, label |-> measure.label,
          sort_by |-> IF measure.sort_by = NoValue THEN DictMeasureSort
                      ELSE measure.sort_by[1]]

\* an element of qDimensions
DimensionDef(dim) ==
    [qDef |->
        [qFieldDefs |-> <<dim.field>>,
         qSortCriterias |->
            <<[qSortByState |-> 0,
               qSortByFrequency |-> 0,
               qSortByNumeric |-> Get(dim.sort_by.qSortByNumeric, 0),
               qSortByAscii |-> Get(dim.sort_by.qSortByAscii, 1),
               qSortByLoadOrder |-> 0,
               qSortByExpression |-> Get(dim.sort_by.qSortByExpression, 0),
               qExpression |-> [qv |-> Get(dim.sort_by.qExpression, "")]]>>],
     qNullSuppression |-> FALSE,
     qIncludeElemValue |-> TRUE]

\* an element of qMeasures; i is the index enumerate gives, from 0
MeasureDef(measure, i) ==
    [qDef |-> [qDef |-> measure.expression,
               qLabel |-> Get(measure.label, <<"Measure_", Digit(i)>>)],
     qSortBy |-> measure.sort_by]

\* create_hypercube up to obj_def
CompileHypercube(dimensions, measures, max_rows) ==
    LET converted_dimensions ==
            [i \in 1..Len(dimensions) |-> ConvertDimension(dimensions[i])]
        converted_measures ==
            [i \in 1..Len(measures) |-> ConvertMeasure(measures[i])]
    IN  [status |-> "compiled",
         qId |-> CreateObjId("create_hypercube",
                             [NoArgs EXCEPT !.nd = Len(converted_dimensions),
                                            !.nm = Len(converted_measures)]),
         qType |-> "HyperCube",
         qDimensions |-> [i \in 1..Len(converted_dimensions) |->
                            DimensionDef(converted_dimensions[i])],
         qMeasures |-> [i \in 1..Len(converted_measures) |->
                          MeasureDef(converted_measures[i], i - 1)],
         qInitialDataFetch |->
            [qTop |-> 0, qLeft |-> 0, qHeight |-> max_rows,
             qWidth |-> Len(converted_dimensions) + Len(converted_measures)]]

\* the names bound where get_pivot_table_data evaluates pivot_def: its
\* parameters (the module binds neither of the two names it reads)
PivotNames == {"self", "app_handle", "dimensions", "measures", "max_rows"}

\* get_pivot_table_data up to pivot_def: reading a name that is not bound
\* raises NameError
CompilePivot(dimensions, measures, max_rows) ==
    IF ~({"converted_dimensions", "converted_measures"} \subseteq PivotNames)
    THEN [NoDefinition EXCEPT !.status = "NameError"]
    ELSE [status |-> "compiled",
          qId |-> <<>>,
          qType |-> "PivotTable",
          qDimensions |-> [i \in 1..Len(dimensions) |->
                             [qDef |-> [qFieldDefs |-> <<dimensions[i].field>>],
                              qNullSuppression |-> TRUE]],
          qMeasures |-> [i \in 1..Len(measures) |->
                           [qDef |-> [qDef |-> measures[i].expression],
                            qSortBy |-> [qSortByNumeric |-> Some(-1)]]],
          qInitialDataFetch |->
             [qTop |-> 0, qLeft |-> 0, qHeight |-> max_rows,
              qWidth |-> Len(dimensions) + Len(measures)]]

\* calculate_expression up to obj_def; without dimensions nothing is built
\* and the expression is evaluated
CompileCalculation(expression, dimensions) ==
    IF dimensions # <<>>
    THEN [status |-> "compiled",
          qId |-> <<>>,
          qType |-> "calculation",
          qDimensions |-> [i \in 1..Len(dimensions) |->
                             [qDef |-> [qFieldDefs |-> <<dimensions[i].field>>]]],
          qMeasures |-> <<[qDef |-> [qDef |-> expression]]>>,
          qInitialDataFetch |->
             [qTop |-> 0, qLeft |-> 0, qHeight |-> 1000,
              qWidth |-> Len(dimensions) + 1]]
    ELSE [NoDefinition EXCEPT !.status = "evaluate"]

\* the operations that put a qId made of a name into their definition
NamingOps == {"get_table_data", "get_field_values"}

\* the definition a call builds
CompileOf(q) ==
    CASE q.fn = "create_hypercube" ->
            CompileHypercube(q.dimensions, q.measures, q.max_rows)
      [] q.fn = "get_pivot_table_data" ->
            CompilePivot(q.dimensions, q.measures, q.max_rows)
      [] q.fn = "calculate_expression" ->
            CompileCalculation(q.measures[1].expression, q.dimensions)
      [] OTHER ->
            [NoDefinition EXCEPT !.status = "compiled",
                                 !.qId = CreateObjId(q.fn, q.args),
                                 !.qType = IF q.fn = "get_field_values"
                                           THEN "ListObject" ELSE "HyperCube"]

BareDims == {d \in DimSpecs : d.str}
BareMeasures == {m \in MeasureSpecs : m.str}

\* create_hypercube is called and builds its definition
CreateHypercubeCall ==
    /\ query = NoQuery
    /\ \E d \in ListsOf(DimSpecs, MaxDims), m \in ListsOf(MeasureSpecs, MaxMeasures),
          n \in RowLimits :
        /\ query' = [NoQuery EXCEPT !.fn = "create_hypercube", !.dimensions = d,
                                    !.measures = m, !.max_rows = n,
                                    !.request_id = request_id]
        /\ compiled' = CompileOf(query')
    /\ UNCHANGED <<clientVars, pc, op, calls, connVars, opVars, connect_failures,
                   query2, compiled2, otherThanCompile>>

\* get_pivot_table_data is called, with lists of names
PivotTableCall ==
    /\ query = NoQuery
    /\ \E d \in ListsOf(BareDims, MaxDims), m \in ListsOf(BareMeasures, MaxMeasures),
          n \in RowLimits :
        /\ query' = [NoQuery EXCEPT !.fn = "get_pivot_table_data", !.dimensions = d,
                                    !.measures = m, !.max_rows = n,
                                    !.request_id = request_id]
        /\ compiled' = CompileOf(query')
    /\ UNCHANGED <<clientVars, pc, op, calls, connVars, opVars, connect_failures,
                   query2, compiled2, otherThanCompile>>

\* calculate_expression is called, with one expression and a list of names
CalculateExpressionCall ==
    /\ query = NoQuery
    /\ \E d \in ListsOf(BareDims, MaxDims), m \in BareMeasures :
        /\ query' = [NoQuery EXCEPT !.fn = "calculate_expression", !.dimensions = d,
                                    !.measures = <<m>>, !.max_rows = CalculationRows,
                                    !.request_id = request_id]
        /\ compiled' = CompileOf(query')
    /\ UNCHANGED <<clientVars, pc, op, calls, connVars, opVars, connect_failures,
                   query2, compiled2, otherThanCompile>>

\* get_table_data or get_field_values is called and builds its definition
NamedObjectCall ==
    /\ query = NoQuery
    /\ \E c \in {c \in OpCalls : c.op \in NamingOps}, n \in RowLimits :
        /\ query' = [NoQuery EXCEPT !.fn = c.op, !.args = c.args, !.max_rows = n,
                                    !.request_id = request_id]
        /\ compiled' = CompileOf(query')
    /\ UNCHANGED <<clientVars, pc, op, calls, connVars, opVars, connect_failures,
                   query2, compiled2, otherThanCompile>>

\* between the two calls the client makes requests for other calls
OtherCalls ==
    /\ query # NoQuery
    /\ query2 = NoQuery
    /\ request_id < MaxSeq
    /\ request_id' = request_id + 1
    /\ UNCHANGED <<ws, ws_retries, socks, pc, op, calls, connVars, opVars,
                   connect_failures, qcVars, otherThanCompile>>

\* the other way of writing an element that states no preference
OtherForms(S, x) ==
    {y \in S : /\ y.sort_by = NoValue
               /\ x.sort_by = NoValue
               /\ \A key \in DOMAIN x \ {"str"} : y[key] = x[key]} \cup {x}

\* the same list with elements written in either form
SameListAs(S, xs) ==
    {ys \in [1..Len(xs) -> S] : \A i \in 1..Len(xs) : ys[i] \in OtherForms(S, xs[i])}

\* the same function is called again for the same fields and expressions,
\* written in either form, with any row limit
CallAgain ==
    /\ query # NoQuery
    /\ query2 = NoQuery
    /\ \E d \in SameListAs(DimSpecs, query.dimensions),
          m \in SameListAs(MeasureSpecs, query.measures),
          n \in IF query.fn = "calculate_expression" THEN {CalculationRows}
                ELSE RowLimits :
        /\ query2' = [query EXCEPT !.dimensions = d, !.measures = m, !.max_rows = n,
                                   !.request_id = request_id]
        /\ compiled2' = CompileOf(query2')
    /\ UNCHANGED <<clientVars, pc, op, calls, connVars, opVars, connect_failures,
                   query, compiled, otherThanCompile>>

NextCompile ==
    \/ CreateHypercubeCall
    \/ PivotTableCall
    \/ CalculateExpressionCall
    \/ NamedObjectCall
    \/ OtherCalls
    \/ CallAgain

\* a client constructed with the default retry setting
InitCompile ==
    /\ Init
    /\ ws_retries = 2

SpecCompile == InitCompile /\ [][NextCompile]_vars


\* the calls that build a definition from dimensions and measures
QueryFns == {"create_hypercube", "get_pivot_table_data", "calculate_expression"}

(***************************************************************************)
(* C18: for every dimension list D, measure list M and row limit n, the    *)
(* initial fetch window of the definition built by create_hypercube,       *)
(* get_pivot_table_data and calculate_expression (with dimensions) has     *)
(* width len(D) + len(M), height n, top 0 and left 0.  The row limit of    *)
(* calculate_expression is the 1000 it is written with.                    *)
(***************************************************************************)
C18_FetchWindow ==
    (query.fn \in QueryFns /\ compiled.status # "evaluate") =>
        /\ compiled.status = "compiled"
        /\ compiled.qInitialDataFetch =
              [qTop |-> 0, qLeft |-> 0, qHeight |-> query.max_rows,
               qWidth |-> Len(query.dimensions) + Len(query.measures)]

(***************************************************************************)
(* C19: create_hypercube builds the same dimension definition (ascending   *)
(* ascii) for a bare field name and for a dict with that field and no      *)
(* sort preference, and the same measure definition (numeric descending,   *)
(* same label) for a bare expression and for a dict with that expression   *)
(* at the same position.                                                   *)
(***************************************************************************)
StatesNoPreference(x) == x.sort_by = NoValue /\ ("label" \in DOMAIN x => x.label = NoValue)

C19_DefaultSortSameForBothForms ==
    (query.fn = "create_hypercube" /\ query2 # NoQuery) =>
        /\ \A i \in 1..Len(query.dimensions) :
              (StatesNoPreference(query.dimensions[i])
                 /\ StatesNoPreference(query2.dimensions[i])) =>
                  /\ compiled.qDimensions[i] = compiled2.qDimensions[i]
                  /\ compiled.qDimensions[i].qDef.qSortCriterias[1].qSortByAscii = 1
                  /\ compiled.qDimensions[i].qDef.qSortCriterias[1].qSortByNumeric = 0
        /\ \A i \in 1..Len(query.measures) :
              (StatesNoPreference(query.measures[i])
                 /\ StatesNoPreference(query2.measures[i])) =>
                  /\ compiled.qMeasures[i] = compiled2.qMeasures[i]
                  /\ compiled.qMeasures[i].qSortBy.qSortByNumeric = Some(-1)

\* a field was given bare in one call and as a dict in the other, and so
\* was the expression at the second position
C19_Witness ==
    /\ query.fn = "create_hypercube"
    /\ query2 # NoQuery
    /\ Len(query.dimensions) >= 1
    /\ Len(query.measures) >= 2
    /\ query.dimensions[1].str
    /\ ~query2.dimensions[1].str
    /\ StatesNoPreference(query2.dimensions[1])
    /\ ~query.measures[2].str
    /\ StatesNoPreference(query.measures[2])
    /\ query2.measures[2].str

(***************************************************************************)
(* C20: two calls of the same operation with the same discriminator (the   *)
(* table name, the field name; for create_hypercube the numbers of         *)
(* dimensions and measures) put the same object id into their definition,  *)
(* whatever the row limit and whatever the client did in between.          *)
(***************************************************************************)
Discriminator(q) ==
    <<q.fn, q.args.table_name, q.args.field_name, Len(q.dimensions), Len(q.measures)>>

MaxCells == 3
MaxRows == 2

\* two rows of cells the engine may send; a text cell has qNum "NaN" or none
SampleRows ==
    << <<Cell("US", NaN, Num(3)), Cell("100", Num(100), Absent),
         Cell("x", Absent, Absent)>>,
       <<Cell("FR", Absent, Absent), Cell("50", Num(50), Absent),
         Cell("y", NaN, Num(1))>> >>

CellAt(r, i) ==
    IF i <= Len(SampleRows[r]) THEN SampleRows[r][i] ELSE Cell("more", Num(r), Absent)

\* a matrix row: the first w cells of a sample row
EngineRows ==
    {[i \in 1..w |-> CellAt(r, i)] : r \in 1..Len(SampleRows), w \in 0..MaxCells}

Matrices == UNION {[1..n -> EngineRows] : n \in 0..MaxRows}

\* the ways the engine may page the rows m: no page at all when there is
\* no row, one page, or two pages
PageLists(m) ==
    {<<m>>}
    \cup {<<SubSeq(m, 1, c), SubSeq(m, c + 1, Len(m))>> : c \in 0..Len(m)}
    \cup (IF m = <<>> THEN {<<>>} ELSE {})

\* the field lists the rows are decoded with
HeaderLists == {<<"Country">>, <<"Country", "Sum(Sales)">>, <<"A", "B", "C", "D">>}

\* format_type of create_data_export: a str the caller chooses
FormatTypes == {"json", "csv", "simple", "xml"}

\* the keys of row_data in the order the loop over a row inserts them
RowKeys(row, headers) ==
    LET n == Min(Len(row), Len(headers))
        F[i \in 0..n] ==
            IF i = 0 THEN <<>>
            ELSE IF \A j \in 1..(i - 1) : headers[j] # headers[i]
                 THEN Append(F[i - 1], headers[i])
                 ELSE F[i - 1]
    IN F[n]

\* the keys of every row_data appended for the rows of a layout
KeysOf(cube, headers) ==
    LET rows == FlattenRows(cube.qDataPages)
    IN [i \in 1..Len(rows) |-> RowKeys(rows[i], headers)]

\* get_table_data: "data": table_data, "returned_rows": len(table_data)
TableDataResult(cube, headers) ==
    [fn |-> "get_table_data", format_type |-> "", headers |-> headers,
     data |-> Some(DecodeTable(cube, headers)),
     keys |-> Some(KeysOf(cube, headers)),
     hypercube_data |-> NoValue,
     count |-> Some(Len(DecodeTable(cube, headers)))]

\* create_data_export: "data": export_data, "exported_rows": len(export_data)
ExportResult(cube, headers, format_type) ==
    [fn |-> "create_data_export", format_type |-> format_type, headers |-> headers,
     data |-> Some(DecodeExport(cube, headers, format_type)),
     keys |-> IF format_type \in {"json", "simple"}
              THEN Some(KeysOf(cube, headers)) ELSE NoValue,
     hypercube_data |-> NoValue,
     count |-> Some(Len(DecodeExport(cube, headers, format_type)))]

\* get_field_values: "values": values_data, "returned_count": len(values_data)
FieldValuesResult(cube) ==
    [fn |-> "get_field_values", format_type |-> "", headers |-> <<>>,
     data |-> Some(DecodeValues(cube)), keys |-> NoValue,
     hypercube_data |-> NoValue,
     count |-> Some(Len(DecodeValues(cube)))]

\* get_field_statistics: the statistics dict
FieldStatisticsResult(cube) ==
    [fn |-> "get_field_statistics", format_type |-> "", headers |-> stats_labels,
     data |-> Some(DecodeStatistics(cube)), keys |-> NoValue,
     hypercube_data |-> NoValue, count |-> NoValue]

\* create_hypercube: "hypercube_data": hypercube, as the engine sent it
HypercubeResult(cube, dimensions, measures) ==
    [fn |-> "create_hypercube", format_type |-> "",
     headers |-> dimensions \o measures,
     data |-> NoValue, keys |-> NoValue,
     hypercube_data |-> Some(cube), count |-> NoValue]

\* the engine answers GetLayout with the rows m in the pages p
Layout(m, p) ==
    /\ decoded = NoDecoded
    /\ hypercube' = [qDataPages |-> p]
    /\ engine_rows' = m
    /\ UNCHANGED <<clientVars, pc, op, calls, connVars, opVars, connect_failures>>
    /\ UNCHANGED otherThanDecode

GetTableDataDecode ==
    \E m \in Matrices : \E p \in PageLists(m), h \in HeaderLists :
        /\ Layout(m, p)
        /\ decoded' = TableDataResult([qDataPages |-> p], h)

CreateDataExportDecode ==
    \E m \in Matrices : \E p \in PageLists(m), h \in HeaderLists, f \in FormatTypes :
        /\ Layout(m, p)
        /\ decoded' = ExportResult([qDataPages |-> p], h, f)

GetFieldValuesDecode ==
    \E m \in Matrices : \E p \in PageLists(m) :
        /\ Layout(m, p)
        /\ decoded' = FieldValuesResult([qDataPages |-> p])

GetFieldStatisticsDecode ==
    \E m \in Matrices : \E p \in PageLists(m) :
        /\ Layout(m, p)
        /\ decoded' = FieldStatisticsResult([qDataPages |-> p])

CreateHypercubeReturn ==
    \E m \in Matrices : \E p \in PageLists(m) :
        /\ Layout(m, p)
        /\ decoded' = HypercubeResult([qDataPages |-> p], <<"Country">>, <<"Sum(Sales)">>)

\* the operation returns its result to the caller
DecodeReturn ==
    /\ decoded # NoDecoded
    /\ hypercube' = NoCube
    /\ engine_rows' = <<>>
    /\ decoded' = NoDecoded
    /\ UNCHANGED <<clientVars, pc, op, calls, connVars, opVars, connect_failures>>
    /\ UNCHANGED otherThanDecode

InitDecode == Init /\ ws_retries = 2

NextDecode ==
    \/ GetTableDataDecode
    \/ CreateDataExportDecode
    \/ GetFieldValuesDecode
    \/ GetFieldStatisticsDecode
    \/ CreateHypercubeReturn
    \/ DecodeReturn

SpecDecode == InitDecode /\ [][NextDecode]_vars

\* the operations that return one record or list per matrix row
RowDecoders == {"get_table_data", "create_data_export"}

\* the text the decoded row d holds for the first cell of a row of cells
\* under the headers h, in the format f ("" is get_table_data's)
FirstText(d, h, f) ==
    CASE f = "csv" -> d[1]
      [] f = "simple" -> d[h[1]]
      [] OTHER -> d[h[1]].text

\* the decoded row d is made of the matrix row e
MadeOf(d, e, h, f) ==
    IF e = <<>> THEN DOMAIN d = {} ELSE FirstText(d, h, f) = e[1].qText

(***************************************************************************)
(* C21: the decoders of get_table_data and create_data_export keep the     *)
(* engine's order: the decoded list has exactly one row per matrix row of  *)
(* the returned pages, the i-th decoded row is made of the i-th matrix row *)
(* counted through the pages in order, none is reordered, merged or        *)
(* dropped, and returned_rows / exported_rows is the number of matrix rows *)
(***************************************************************************)
C21_RowsInEngineOrder ==
    decoded.fn \in RowDecoders =>
        LET rows == Get(decoded.data, <<>>) IN
        /\ Len(rows) = Len(engine_rows)
        /\ decoded.count = Some(Len(engine_rows))
        /\ \A i \in 1..Len(rows) :
              MadeOf(rows[i], engine_rows[i], decoded.headers, decoded.format_type)

\* the decoded rows are dicts keyed by field name
KeyedFormats == {"", "json", "simple"}

\* the text a keyed row holds under one key, in the format f
TextOf(v, f) == IF f = "simple" THEN v ELSE v.text

\* Scenario A: dimensions ["Country"], measures ["Sum(Sales)"], and the two
\* rows US / 100 and FR / 50 the engine returns
ScenarioAFields == <<"Country", "Sum(Sales)">>
ScenarioARows == <<[i \in 1..2 |-> CellAt(1, i)], [i \in 1..2 |-> CellAt(2, i)]>>
ScenarioA == decoded.headers = ScenarioAFields /\ engine_rows = ScenarioARows

(***************************************************************************)
(* C22: the mapping of columns to fields is positional: in every decoded   *)
(* row the value under the i-th field name is that of the i-th cell of the *)
(* matrix row, and the cells at positions from the number of field names   *)
(* on are passed over; and for Scenario A the result holds the two rows    *)
(* with the dimension value and the measure value each under its field     *)
(***************************************************************************)
C22_PositionalMapping ==
    /\ decoded.fn \in RowDecoders /\ decoded.format_type \in KeyedFormats =>
          LET rows == Get(decoded.data, <<>>)
              h == decoded.headers
          IN \A i \in 1..Len(rows) :
               LET n == Min(Len(engine_rows[i]), Len(h)) IN
               /\ DOMAIN rows[i] = {h[j] : j \in 1..n}
               /\ \A j \in 1..n :
                     TextOf(rows[i][h[j]], decoded.format_type) = engine_rows[i][j].qText
    /\ ScenarioA /\ decoded.format_type \in {"", "json"} =>
          /\ decoded.data # NoValue
          /\ LET rows == Get(decoded.data, <<>>) IN
             /\ Len(rows) = 2
             /\ rows[1]["Country"].text = "US"
             /\ rows[1]["Sum(Sales)"].numeric = Num(100)
             /\ rows[2]["Country"].text = "FR"
             /\ rows[2]["Sum(Sales)"].numeric = Num(50)

(***************************************************************************)
(* C23: round trip of a field list through a table query: get_table_data   *)
(* builds its query from the field list F and decodes the returned matrix  *)
(* with F; every decoded row then has exactly the keys F, in the order of  *)
(* F, whatever number of cells the engine returned in that row             *)
(***************************************************************************)
C23_RowKeysAreTheFieldList ==
    decoded.fn = "get_table_data" =>
        LET keys == Get(decoded.keys, <<>>) IN
        /\ Len(keys) = Len(engine_rows)
        /\ \A i \in 1..Len(keys) : keys[i] = decoded.headers

\* the numeric value a decoded cell is to carry
ExpectedNumeric(cell) == IF cell.qNum \in {Absent, NaN} THEN Null ELSE cell.qNum

HasCell(row) == row # <<>>
\* the matrix rows that have a first cell, in engine order
RowsWithCell == SelectSeq(engine_rows, HasCell)

(***************************************************************************)
(* C24: in every decoder (table data, export, statistics, field values)    *)
(* the numeric value of a decoded cell is the cell's qNum only when the    *)
(* cell has one and it is not the "NaN" sentinel, and null otherwise; the  *)
(* decoded text is always the cell's qText                                 *)
(***************************************************************************)
C24_NumericOnlyWhenPresentAndNotNaN ==
    LET d == Get(decoded.data, <<>>)
        h == decoded.headers
    IN
    /\ decoded.fn \in RowDecoders /\ decoded.format_type \in KeyedFormats =>
          \A i \in 1..Len(d) : \A j \in 1..Min(Len(engine_rows[i]), Len(h)) :
             /\ TextOf(d[i][h[j]], decoded.format_type) = engine_rows[i][j].qText
             /\ decoded.format_type # "simple" =>
                   d[i][h[j]].numeric = ExpectedNumeric(engine_rows[i][j])
    /\ decoded.fn \in RowDecoders /\ decoded.format_type = "csv" =>
          \A i \in 1..Len(d) : \A j \in 1..Len(engine_rows[i]) :
             d[i][j] = engine_rows[i][j].qText
    /\ decoded.fn = "get_field_statistics" =>
          \A l \in DOMAIN d :
             \E i \in 1..Len(engine_rows) : \E j \in 1..Len(engine_rows[i]) :
                /\ j <= Len(stats_labels)
                /\ stats_labels[j] = l
                /\ d[l].text = engine_rows[i][j].qText
                /\ d[l].numeric = ExpectedNumeric(engine_rows[i][j])
    /\ decoded.fn = "get_field_values" =>
          \A i \in 1..Min(Len(d), Len(RowsWithCell)) :
             /\ d[i].value = RowsWithCell[i][1].qText
             /\ d[i].numeric_value = ExpectedNumeric(RowsWithCell[i][1])

(***************************************************************************)
(* C25: get_field_values decodes a list object row by row: every matrix    *)
(* row that has a cell gives exactly one entry, made of its first cell,    *)
(* with a frequency only when that cell has one; an empty row gives no     *)
(* entry; the entries are in engine order and returned_count is their      *)
(* number                                                                  *)
(***************************************************************************)
C25_OneEntryPerNonEmptyRow ==
    decoded.fn = "get_field_values" =>
        LET values == Get(decoded.data, <<>>) IN
        /\ Len(values) = Len(RowsWithCell)
        /\ decoded.count = Some(Len(values))
        /\ \A i \in 1..Len(values) :
              /\ values[i].value = RowsWithCell[i][1].qText
              /\ values[i].frequency = RowsWithCell[i][1].qFrequency

\* an empty row was passed over and entries with and without a frequency
\* were made
C25_Witness ==
    /\ decoded.fn = "get_field_values"
    /\ \E i \in 1..Len(engine_rows) : engine_rows[i] = <<>>
    /\ \E i \in 1..Len(engine_rows) : engine_rows[i] # <<>>
    /\ Len(Get(decoded.data, <<>>)) = Len(engine_rows) - 1
    /\ \E i \in 1..Len(Get(decoded.data, <<>>)) :
          Get(decoded.data, <<>>)[i].frequency # Absent

(***************************************************************************)
(* Further properties of the session-object operations (Spec)              *)
(***************************************************************************)
\* get_table_data was called with max_rows = 0 and the engine answered its
\* GetLayout with a well-formed hypercube
EmptyWindowAnswered ==
    /\ Returned({"get_table_data"})
    /\ args.max_rows = 0
    /\ layout # NoLayout
    /\ layout.wellFormed

(***************************************************************************)
(* C26: a fetch window of height 0 (max_rows = 0) gives a successful       *)
(* result with zero decoded rows, not an error, and the session object     *)
(* made for it is still destroyed: the DestroySessionObject request is     *)
(* written once (unless the client was disconnected before the cleanup,    *)
(* when the object has gone with the connection)                           *)
(***************************************************************************)
C26_EmptyWindowSucceeds ==
    EmptyWindowAnswered =>
        /\ result.kind = "data"
        /\ Len(result.data) = 0
        /\ \/ Cardinality(Requests("DestroySessionObject")) = 1
           \/ ws = NoSocket

C26_Witness ==
    /\ EmptyWindowAnswered
    /\ result.kind = "data"
    /\ \E i \in Requests("DestroySessionObject") : sent[i].outcome = "result"

(***************************************************************************)
(* C27: session-object handles die with the connection: no request, and    *)
(* so no DestroySessionObject, is written once the client is disconnected: *)
(* every request an operation writes is written while the client holds an  *)
(* open socket, and an operation whose connection was closed before its    *)
(* cleanup step writes no destroy request                                  *)
(***************************************************************************)
C27_NoRequestAfterDisconnect ==
    [][Len(sent') > Len(sent) => ws # NoSocket /\ ws \in OpenSockets]_vars

\* an operation decoded its layout, found the client disconnected at its
\* cleanup step and returned without a destroy request
C27_Witness ==
    /\ Returned(DestroyingOps)
    /\ ws = NoSocket
    /\ result.kind = "data"
    /\ result.cleanup_warning
    /\ Requests("GetLayout") # {}
    /\ Requests("DestroySessionObject") = {}

(***************************************************************************)
(* SpecAnalyze: get_sheets_with_objects.  The call connects, opens the     *)
(* app, lists the sheets and walks them; _get_sheet_objects_detailed walks *)
(* the child objects of one sheet.  One step per request; the recovery of  *)
(* open_doc after "already open" is the matter of SpecOpen.                *)
(***************************************************************************)
\* calls of get_sheets_with_objects in one run
MaxAnalyzeCalls == 1

\* the items get_sheets may return: a sheet with its qInfo.qId ("" for an
\* item without qInfo) and the qId of every item of its qChildList ("" for
\* a child without qInfo.qId)
SampleSheets ==
    [s0 |-> [qId |-> "", children |-> <<>>],
     s1 |-> [qId |-> "s1", children |-> <<"o1", "o2">>],
     s2 |-> [qId |-> "s2", children |-> <<"o3">>],
     s3 |-> [qId |-> "s3", children |-> <<"", "o1">>]]

SampleSheetLists ==
    {<<SampleSheets.s1, SampleSheets.s2>>, <<SampleSheets.s0, SampleSheets.s3>>,
     <<SampleSheets.s3, SampleSheets.s1>>}

\* fields_used of an object, as _extract_fields_from_object finds them in
\* its layout
FieldsUsed(id) ==
    CASE id = "o1" -> {"A"}
      [] id = "o2" -> {"A", "B"}
      [] OTHER -> {}

\* the keys of field_usage_map: every field some processed object uses
FieldUsage(ds) ==
    UNION {UNION {FieldsUsed(ds[i].objects[j]) : j \in 1..Len(ds[i].objects)} :
             i \in 1..Len(ds)}

\* a test that never finds the sheet in the list
SheetAlreadyAddedNever(sheet_list, sheet_id) == FALSE

\* any(s["sheet_id"] == sheet_id for s in field_usage_map[field_name]["sheets"])
SheetAlreadyAdded(sheet_list, sheet_id) ==
    \E i \in 1..Len(sheet_list) : sheet_list[i] = sheet_id

\* the objects of the list os that use the field, in order
RECURSIVE Using(_, _)
Using(field_name, os) ==
    IF os = <<>> THEN <<>>
    ELSE (IF field_name \in FieldsUsed(Head(os)) THEN <<Head(os)>> ELSE <<>>)
         \o Using(field_name, Tail(os))

\* field_usage_map[field_name] after one more object of a sheet: the
\* object is appended, the sheet is appended unless it is in the list
AddObject(usage, sheet_id, obj) ==
    [objects |-> Append(usage.objects, [object_id |-> obj, sheet_id |-> sheet_id]),
     sheets |-> IF SheetAlreadyAdded(usage.sheets, sheet_id) THEN usage.sheets
                ELSE Append(usage.sheets, sheet_id)]

RECURSIVE AddObjects(_, _, _)
AddObjects(usage, sheet_id, os) ==
    IF os = <<>> THEN usage
    ELSE AddObjects(AddObject(usage, sheet_id, Head(os)), sheet_id, Tail(os))

\* field_usage_map[field_name] after the sheets ds, both lists empty for a
\* field that is no key of the map
RECURSIVE UsageOf(_, _)
UsageOf(field_name, ds) ==
    IF ds = <<>> THEN [objects |-> <<>>, sheets |-> <<>>]
    ELSE LET last == ds[Len(ds)] IN
         AddObjects(UsageOf(field_name, SubSeq(ds, 1, Len(ds) - 1)),
                    last.sheet_id, Using(field_name, last.objects))

\* the report returned after the loop over the sheets
Report(ss, ds) ==
    [sheets |-> ds,
     total_sheets |-> Len(ds),
     field_usage |-> FieldUsage(ds),
     debug_info |-> [sheets_from_api |-> Len(ss),
                     processed_sheets |-> Len(ds),
                     fields_with_usage |-> Cardinality(FieldUsage(ds))]]

\* the report returned when get_sheets gave no sheet (its debug_info holds
\* sheets_from_api and the text error_reason)
EmptyReport ==
    [sheets |-> <<>>, total_sheets |-> 0, field_usage |-> {},
     debug_info |-> [sheets_from_api |-> 0, processed_sheets |-> 0,
                     fields_with_usage |-> 0]]

\* what no action of the walk changes
WalkFrame ==
    UNCHANGED <<ws, ws_retries, socks, op, calls, connVars, args, table_fields,
                obj_id, cube_handle, layout, connect_failures, otherThanWalk>>

\* the operations that connect on demand, and those of them that end with
\* `finally: self.disconnect()`
OnDemandOps == {"get_sheets_with_objects", "get_app_details", "get_detailed_app_metadata"}
FinallyOps == {"get_app_details", "get_detailed_app_metadata"}

\* where a return statement inside the try leads
Exit(o) == IF o \in FinallyOps THEN "finally" ELSE "done"

\* an operation that connects on demand is called: it starts with
\* self.connect()
AnalyzeStart ==
    /\ pc = "idle"
    /\ calls < MaxAnalyzeCalls
    /\ calls' = calls + 1
    /\ op' \in OnDemandOps
    /\ pc' = "connect_loop"
    /\ endpoints_to_try' = EndpointsToTry(ws_retries)
    /\ k' = 1
    /\ last_error' = NoError
    /\ attempted' = <<>>
    /\ opened' = {}
    /\ conn_result' = NoConnResult
    /\ sheets' = <<>>
    /\ sheet_i' = 0
    /\ child_i' = 0
    /\ obj_handle' = NoHandle
    /\ detailed_objects' = <<>>
    /\ detailed_sheets' = <<>>
    /\ skipped' = <<>>
    /\ UNCHANGED <<clientVars, opVars, connect_failures, otherThanWalk>>

\* connect has returned or raised; a raise is caught by the except clause
AnalyzeConnected ==
    /\ pc = "done"
    /\ op \in OnDemandOps
    /\ result = NoResult
    /\ IF conn_result.raised
       THEN /\ result' = ErrorResult("connect", TRUE)
            /\ pc' = Exit(op)
       ELSE /\ pc' = "open_app"
            /\ UNCHANGED result
    /\ UNCHANGED <<request_id, sent, log, app_handle, walkVars>>
    /\ WalkFrame

\* open_doc(app_id, no_data=False)
AnalyzeOpenDoc ==
    /\ pc = "open_app"
    /\ \/ \E f \in Failures :
             /\ Write("OpenDoc", GlobalHandle, <<>>, f)
             /\ result' = ErrorResult(f, TRUE)
             /\ pc' = Exit(op)
             /\ UNCHANGED app_handle
       \/ /\ Write("OpenDoc", GlobalHandle, <<>>, "result")
          /\ \/ /\ result' = ErrorResult("open_failed", FALSE)
                /\ pc' = Exit(op)
                /\ UNCHANGED app_handle
             \/ \E h \in AppHandles :
                /\ app_handle' = h
                /\ pc' = IF op = "get_sheets_with_objects" THEN "list_sheets"
                          ELSE "details"
                /\ UNCHANGED result
    /\ UNCHANGED <<log, walkVars>>
    /\ WalkFrame

\* get_sheets(app_handle): [] when it fails, and then the report without
\* sheets; else the loop over the sheets starts
AnalyzeGetSheets ==
    /\ pc = "list_sheets"
    /\ request_id' = request_id + 2
    /\ \E h \in ObjectHandles :
       LET requests(outcome) ==
               <<Request(request_id + 1, app_handle, "CreateSessionObject", <<>>,
                         "result"),
                 Request(request_id + 2, h, "GetLayout", <<>>, outcome)>>
       IN
       \/ /\ sent' = sent \o requests("transport")
          /\ log' = log \o <<"error">>
          /\ result' = DataResult(EmptyReport, FALSE)
          /\ pc' = "done"
          /\ UNCHANGED sheets
       \/ \E ss \in SampleSheetLists :
          /\ sent' = sent \o requests("result")
          /\ log' = log \o <<"info">>
          /\ sheets' = ss
          /\ pc' = "walk_sheet"
          /\ UNCHANGED result
    /\ sheet_i' = 1
    /\ UNCHANGED <<app_handle, child_i, obj_handle, detailed_objects, detailed_sheets,
                   skipped>>
    /\ WalkFrame

\* sheet_info of the current sheet is appended with the objects os
SheetDone(os) ==
    /\ detailed_sheets' = Append(detailed_sheets,
                                 [sheet_id |-> sheets[sheet_i].qId, objects |-> os,
                                  objects_count |-> Len(os)])
    /\ sheet_i' = sheet_i + 1
    /\ child_i' = 0
    /\ obj_handle' = NoHandle
    /\ detailed_objects' = <<>>
    /\ pc' = "walk_sheet"

\* for sheet in sheets, and the return after the loop
SheetLoop ==
    /\ pc = "walk_sheet"
    /\ IF sheet_i > Len(sheets)
       THEN /\ result' = DataResult(Report(sheets, detailed_sheets), FALSE)
            /\ pc' = "done"
            /\ UNCHANGED sheet_i
       ELSE IF sheets[sheet_i].qId = ""
       THEN \* not a dict or no qInfo: continue
            /\ sheet_i' = sheet_i + 1
            /\ UNCHANGED <<result, pc>>
       ELSE /\ pc' = "sheet_object"
            /\ UNCHANGED <<result, sheet_i>>
    /\ UNCHANGED <<request_id, sent, log, app_handle, sheets, child_i, obj_handle,
                   detailed_objects, detailed_sheets, skipped>>
    /\ WalkFrame

\* _get_sheet_objects_detailed: GetObject for the sheet
SheetGetObject ==
    /\ pc = "sheet_object"
    /\ \/ \E f \in Failures :
             /\ Write("GetObject", app_handle, sheets[sheet_i].qId, f)
             /\ log' = log \o <<"error">>
             /\ SheetDone(<<>>)
       \/ /\ Write("GetObject", app_handle, sheets[sheet_i].qId, "result")
          /\ \/ /\ log' = log \o <<"warning">>
                /\ SheetDone(<<>>)
             \/ \E h \in ObjectHandles :
                /\ obj_handle' = h
                /\ pc' = "sheet_layout"
                /\ UNCHANGED <<log, sheet_i, child_i, detailed_objects, detailed_sheets>>
    /\ UNCHANGED <<result, app_handle, sheets, skipped>>
    /\ WalkFrame

\* _get_sheet_objects_detailed: GetLayout of the sheet and its qChildList
SheetGetLayout ==
    /\ pc = "sheet_layout"
    /\ \/ \E f \in Failures :
             /\ Write("GetLayout", obj_handle, <<>>, f)
             /\ log' = log \o <<"error">>
             /\ SheetDone(<<>>)
       \/ /\ Write("GetLayout", obj_handle, <<>>, "result")
          /\ \/ /\ log' = log \o <<"warning">>
                /\ SheetDone(<<>>)
             \/ /\ child_i' = 1
                /\ detailed_objects' = <<>>
                /\ pc' = "walk_child"
                /\ UNCHANGED <<log, sheet_i, obj_handle, detailed_sheets>>
    /\ UNCHANGED <<result, app_handle, sheets, skipped>>
    /\ WalkFrame

\* the child at child_i is passed over because of why
Skip(why) ==
    /\ skipped' = Append(skipped, <<sheet_i, child_i, why>>)
    /\ child_i' = child_i + 1
    /\ pc' = "walk_child"

\* for child_obj in child_objects, and `return detailed_objects`
ChildLoop ==
    /\ pc = "walk_child"
    /\ IF child_i > Len(sheets[sheet_i].children)
       THEN /\ SheetDone(detailed_objects)
            /\ UNCHANGED skipped
       ELSE IF sheets[sheet_i].children[child_i] = ""
       THEN \* if not obj_id: continue
            /\ Skip("no_id")
            /\ UNCHANGED <<sheet_i, obj_handle, detailed_objects, detailed_sheets>>
       ELSE /\ pc' = "child_object"
            /\ UNCHANGED <<sheet_i, child_i, obj_handle, detailed_objects,
                           detailed_sheets, skipped>>
    /\ UNCHANGED <<request_id, sent, log, result, app_handle, sheets>>
    /\ WalkFrame

\* GetObject for the child; the except clause of the loop body logs a
\* warning and continues, a result without a handle continues without one
ChildGetObject ==
    /\ pc = "child_object"
    /\ \/ \E f \in Failures :
             /\ Write("GetObject", app_handle, sheets[sheet_i].children[child_i], f)
             /\ log' = log \o <<"warning">>
             /\ Skip(f)
             /\ UNCHANGED obj_handle
       \/ /\ Write("GetObject", app_handle, sheets[sheet_i].children[child_i], "result")
          /\ \/ /\ Skip("no_handle")
                /\ UNCHANGED <<log, obj_handle>>
             \/ \E h \in ObjectHandles :
                /\ obj_handle' = h
                /\ pc' = "child_layout"
                /\ UNCHANGED <<log, child_i, skipped>>
    /\ UNCHANGED <<result, app_handle, sheets, sheet_i, detailed_objects,
                   detailed_sheets>>
    /\ WalkFrame

\* GetLayout of the child, and detailed_objects.append(detailed_obj)
ChildGetLayout ==
    /\ pc = "child_layout"
    /\ \/ \E f \in Failures :
             /\ Write("GetLayout", obj_handle, <<>>, f)
             /\ log' = log \o <<"warning">>
             /\ Skip(f)
             /\ UNCHANGED detailed_objects
       \/ /\ Write("GetLayout", obj_handle, <<>>, "result")
          /\ \/ /\ Skip("no_layout")
                /\ UNCHANGED <<log, detailed_objects>>
             \/ /\ detailed_objects' =
                      Append(detailed_objects, sheets[sheet_i].children[child_i])
                /\ log' = log \o <<"info">>
                /\ child_i' = child_i + 1
                /\ pc' = "walk_child"
                /\ UNCHANGED skipped
    /\ UNCHANGED <<result, app_handle, sheets, sheet_i, obj_handle, detailed_sheets>>
    /\ WalkFrame

\* get_sheets_with_objects returns its report or its error dict
AnalyzeReturn ==
    /\ op \in OnDemandOps
    /\ result # NoResult
    /\ Return

\* the requests of get_app_details and get_detailed_app_metadata after the
\* document is open, all on its handle: the helpers of get_app_details
\* turn a failure into a default value, in get_detailed_app_metadata a
\* failure of GetTablesAndKeys reaches the except clause
AppDetailsBody ==
    /\ pc = "details"
    /\ request_id' = request_id + 2
    /\ \E o1, o2 \in {"result"} \cup Failures :
        /\ sent' = sent \o
              <<Request(request_id + 1, app_handle, "GetAppLayout", <<>>, o1),
                Request(request_id + 2, app_handle,
                        IF op = "get_app_details" THEN "GetAppProperties"
                        ELSE "GetTablesAndKeys", <<>>, o2)>>
        /\ result' = IF op = "get_detailed_app_metadata" /\ o2 # "result"
                     THEN ErrorResult(o2, TRUE)
                     ELSE DataResult(<<>>, FALSE)
    /\ pc' = "finally"
    /\ UNCHANGED <<log, app_handle, walkVars>>
    /\ WalkFrame

\* finally: self.disconnect()
AnalyzeFinally ==
    /\ pc = "finally"
    /\ IF ws # NoSocket
       THEN /\ socks' = CloseSocket(socks, ws)
            /\ ws' = NoSocket
       ELSE UNCHANGED <<ws, socks>>
    /\ pc' = "done"
    /\ UNCHANGED <<request_id, ws_retries, op, calls, connVars, opVars,
                   connect_failures, walkVars, otherThanWalk>>

InitAnalyze == Init /\ ws_retries = 1

NextAnalyze ==
    \/ AnalyzeStart
    \/ ConnectRefused
    \/ ConnectOpened
    \/ ConnectRecvFailed
    \/ ConnectOk
    \/ ConnectRaise
    \/ AnalyzeConnected
    \/ AnalyzeOpenDoc
    \/ AnalyzeGetSheets
    \/ SheetLoop
    \/ SheetGetObject
    \/ SheetGetLayout
    \/ ChildLoop
    \/ ChildGetObject
    \/ ChildGetLayout
    \/ AppDetailsBody
    \/ AnalyzeFinally
    \/ AnalyzeReturn

SpecAnalyze == InitAnalyze /\ [][NextAnalyze]_vars

\* get_sheets_with_objects has walked the sheets and its report is in result
WalkReported ==
    /\ pc = "done"
    /\ op = "get_sheets_with_objects"
    /\ result.kind = "data"
    /\ sheets # <<>>

\* every number the report carries: the counts of debug_info, total_sheets
\* and the objects_count of each sheet
ReportNumbers(r) ==
    {r.total_sheets, r.debug_info.sheets_from_api, r.debug_info.processed_sheets,
     r.debug_info.fields_with_usage}
    \cup {r.sheets[i].objects_count : i \in 1..Len(r.sheets)}

\* the children passed over because their handle or their layout could not
\* be fetched
Unfetched == {i \in 1..Len(skipped) : skipped[i][3] # "no_id"}

\* the walk went on after the child c of the sheet s: every later child of
\* s was fetched or passed over in its turn, and every later sheet that has
\* an id was processed
WentOnAfter(s, c) ==
    /\ \A c2 \in (c + 1)..Len(sheets[s].children) :
          \/ \E i \in 1..Len(skipped) : skipped[i][1] = s /\ skipped[i][2] = c2
          \/ \E i \in 1..Len(detailed_sheets) :
                /\ detailed_sheets[i].sheet_id = sheets[s].qId
                /\ \E j \in 1..Len(detailed_sheets[i].objects) :
                      detailed_sheets[i].objects[j] = sheets[s].children[c2]
    /\ \A s2 \in (s + 1)..Len(sheets) :
          sheets[s2].qId # "" =>
             \E i \in 1..Len(detailed_sheets) :
                detailed_sheets[i].sheet_id = sheets[s2].qId

RequestFailed == \E i \in 1..Len(sent) : sent[i].outcome # "result"

\* the running operation logged a warning or an error
LoggedFailure == \E i \in 1..Len(log) : log[i] \in {"warning", "error"}

C30_CreatedLayoutFetchedDestroyed ==
    op \in SessionOps =>
        /\ \A i \in Requests("GetLayout") :
              /\ \E j \in Requests("CreateSessionObject") :
                    j < i /\ sent[j].outcome = "result"
              /\ GotHandle
              /\ sent[i].handle = cube_handle
        /\ \A i \in Requests("DestroySessionObject") :
              /\ \E j \in Requests("GetLayout") : j < i /\ sent[j].outcome = "result"
              /\ \A j \in (i + 1)..Len(sent) : sent[j].handle # cube_handle

\* an operation has created its object, fetched the layout and destroyed it
C30_Witness ==
    /\ Returned(DestroyingOps)
    /\ \E i \in Requests("CreateSessionObject"), j \in Requests("GetLayout"),
          d \in Requests("DestroySessionObject") :
          /\ i < j /\ j < d
          /\ sent[i].outcome = "result"
          /\ sent[j].outcome = "result"
          /\ sent[d].outcome = "result"

(***************************************************************************)
(* Cleanup is never repeated                                               *)
(***************************************************************************)
\* the path the running operation took after CreateSessionObject
StructuralPath == LayoutLacksShape
ExceptionPath ==
    \/ \E i \in Requests("GetLayout") : sent[i].outcome # "result"
    \/ layout # NoLayout /\ layout.qLayout /\ layout.shape /\ ~layout.wellFormed

\* C31: no operation sends more than one DestroySessionObject for an object
\* it created: at every point of get_table_data, get_field_values,
\* get_field_statistics and create_data_export, on the structural-error
\* path, the success path and the exception path alike, at most one destroy
\* request has been written, even when the destroy call itself failed.
C31_AtMostOneDestroy ==
    op \in DestroyingOps =>
        /\ Cardinality(Requests("DestroySessionObject")) <= 1
        /\ DestroyFailed => Cardinality(Requests("DestroySessionObject")) = 1
        /\ ExceptionPath => Requests("DestroySessionObject") = {}

\* an operation returned after its only cleanup call failed on the
\* structural-error path
C31_Witness ==
    /\ Returned(DestroyingOps)
    /\ StructuralPath
    /\ DestroyFailed

(***************************************************************************)
(* Which request a returned value answers                                  *)
(***************************************************************************)
\* the running send_request returned a value to its caller
ValueReturned == op = "send_request" /\ pc = "done" /\ reply.kind = "returned"

\* the frame the running call resolved with answers a request that an
\* earlier call wrote on this connection and did not read the response of
LateResponse ==
    /\ reply.frame # NoFrame
    /\ reply.frame.id # 0
    /\ reply.frame.id < rpc.id

\* C32: with one request in flight at a time, every value send_request
\* returns is the response to the request this same call sent (the frame
\* answering its sequence id); a response that arrives late for an earlier
\* call that failed with a read timeout is never returned as the result of
\* a later call on the same connection.
C32_ResponseAnswersOwnRequest ==
    ValueReturned =>
        /\ reply.frame.id = rpc.id
        /\ ~LateResponse

(***************************************************************************)
(* The read loop of send_request against an engine that sends frames on    *)
(* its own: `while True: data = self.ws.recv()`.  The socket was created   *)
(* with timeout=self.ws_timeout_seconds, so one recv either gives the      *)
(* next frame or raises; the loop itself keeps no deadline.                *)
(***************************************************************************)
\* frames the engine may have sent ahead of the reader
MaxInbox == 2

\* ids whose response frame waits in the inbox
Waiting == {inbox[i].id : i \in 1..Len(inbox)}

\* the engine sends a frame on the held socket: a notification, or the
\* response to a request that was written and has none yet
EngineSends ==
    /\ pc = "recv"
    /\ Len(inbox) < MaxInbox
    /\ \E frame \in PushFrames \cup ResponseFrames(Unanswered(ws) \ Waiting) :
          inbox' = Append(inbox, frame)
    /\ UNCHANGED <<clientVars, pc, op, calls, connVars, opVars, connect_failures,
                   rpcVars>>
    /\ UNCHANGED otherThanRecv

\* if "result" in data or "error" in data: break
Breaks(frame) == TextHasResultOrError(frame)

\* one turn of the loop: recv gives the oldest unread frame
RecvNext ==
    /\ pc = "recv"
    /\ inbox # <<>>
    /\ LET frame == Head(inbox) IN
        /\ inbox' = Tail(inbox)
        /\ answered' = IF frame.id = 0 THEN answered ELSE answered \cup {frame.id}
        /\ IF Breaks(frame)
           THEN /\ reply' = Resolve(frame)
                /\ pc' = "done"
                /\ UNCHANGED discarded
           ELSE /\ discarded' = IF Len(discarded) < MaxPushes
                                 THEN Append(discarded, frame) ELSE discarded
                /\ UNCHANGED <<reply, pc>>
    /\ UNCHANGED <<clientVars, op, calls, connVars, opVars, connect_failures,
                   rpc, wire>>
    /\ UNCHANGED otherThanRecv

\* one turn of the loop: recv raises, because no frame came within the
\* socket timeout or because the connection is gone
RecvRaises ==
    /\ pc = "recv"
    /\ \E f \in TransportFailures :
          /\ f = "WebSocketTimeoutException" => inbox = <<>>
          /\ reply' = TransportRaised(f)
          /\ socks' = LoseSocket(socks, ws, f)
          /\ inbox' = IF f = "WebSocketTimeoutException" THEN inbox ELSE <<>>
    /\ pc' = "done"
    /\ UNCHANGED <<request_id, ws, ws_retries, op, calls, connVars, opVars,
                   connect_failures, rpc, discarded, wire, answered>>
    /\ UNCHANGED otherThanRecv

\* disconnect drops what was not read from the closed socket
RecvDisconnect ==
    /\ calls < MaxRpcCalls
    /\ pc = "idle"
    /\ calls' = calls + 1
    /\ IF ws # NoSocket
       THEN /\ socks' = CloseSocket(socks, ws)
            /\ ws' = NoSocket
       ELSE UNCHANGED <<ws, socks>>
    /\ inbox' = <<>>
    /\ connect_failures' = <<>>
    /\ UNCHANGED <<request_id, ws_retries, pc, op, connVars, opVars, rpcVars>>
    /\ UNCHANGED otherThanRecv

InitRecv ==
    /\ Init
    /\ ws_retries = 1

NextRecv ==
    \/ RpcConnect
    \/ ConnectRefused
    \/ ConnectOpened
    \/ ConnectRecvFailed
    \/ ConnectOk
    \/ ConnectRaise
    \/ ConnectReturn
    \/ RecvDisconnect
    \/ SendRequest
    \/ EngineSends
    \/ RecvNext
    \/ RecvRaises
    \/ RpcReturn

\* a blocked recv comes back: with the next frame, or with the timeout
\* exception once nothing came for ws_timeout_seconds
Recv == RecvNext \/ RecvRaises

SpecRecv ==
    /\ InitRecv
    /\ [][NextRecv]_vars
    /\ WF_vars(Recv)
    /\ WF_vars(RpcReturn)

\* the running send_request is in its read loop / has left it
Reading == op = "send_request" /\ pc = "recv"
Ended == pc = "done" \/ pc = "idle"

\* C33: send_request terminates: the call returns or raises once the
\* engine has sent a frame with a result or error key or the transport has
\* failed or timed out, and a continuous stream of push frames that have
\* neither key cannot by itself keep a call from ever ending.
C33_SendRequestTerminates == Reading ~> Ended

(***************************************************************************)
(* Sockets the client opened and no longer refers to                       *)
(***************************************************************************)
\* open sockets other than the one self.ws refers to
Orphans == OpenSockets \ {ws}

\* C34: every socket the client opened is closed or is its current socket:
\* over any sequence of connect, disconnect and the operations that connect
\* on demand, no opened socket stays open while the client holds no
\* reference to it; connect on a connected client does not orphan the
\* socket held before.
C34_NoOrphanedSocket == Orphans = {}

(***************************************************************************)
(* The connection after an operation that connects on demand               *)
(***************************************************************************)
\* the running operation has its result and is about to return it
OnDemandReturned == op \in OnDemandOps /\ pc = "done" /\ result # NoResult

\* C35: each operation that connects on demand leaves the client
\* disconnected when it returns, on every exit path (success, failed
\* connect, failed open, error result, raised exception): get_app_details,
\* get_detailed_app_metadata and likewise get_sheets_with_objects.
C35_OnDemandLeavesDisconnected == OnDemandReturned => ws = NoSocket

(***************************************************************************)
(* send_request on a client that holds no socket                           *)
(***************************************************************************)
\* this step is a call of send_request on a client that is not connected
CalledNotConnected == pc = "idle" /\ op' = "send_request" /\ ws = NoSocket

\* C36: send_request on a client that is not connected raises
\* ConnectionError and changes nothing: no frame is written, no sequence id
\* is consumed, and the socket reference stays empty.
C36_NotConnectedRaisesChangesNothing ==
    [][CalledNotConnected =>
          /\ pc' = "done"
          /\ reply'.kind = "raised"
          /\ reply'.class = "ConnectionError"
          /\ wire' = wire
          /\ request_id' = request_id
          /\ ws' = NoSocket
          /\ socks' = socks]_vars

\* the call was made on a client that had sent requests and was then
\* disconnected
C36_Witness ==
    /\ op = "send_request"
    /\ pc = "done"
    /\ reply.class = "ConnectionError"
    /\ rpc.ws = NoSocket
    /\ wire # <<>>
    /\ request_id = Len(wire)

(***************************************************************************)
(* The error an open raises                                                *)
(***************************************************************************)
\* the running open has its outcome
OpenEnded == op \in OpenFns /\ pc = "done"

\* how the OpenDoc request of the running open ended
OpenDocOutcome == IF sent = <<>> THEN "not_connected" ELSE sent[1].outcome

\* the recovery requests of the running open
RecoveryRequests == Requests("GetActiveDoc") \cup Requests("GetDocList")

\* the recovery was attempted and found nothing: GetActiveDoc gave no
\* document and no entry of the document list matches
NothingFound ==
    /\ RecoveryRequests # {}
    /\ \A i \in Requests("GetActiveDoc") : sent[i].outcome # "result"
    /\ \A i \in Requests("GetDocList") :
           sent[i].outcome = "result" =>
               FirstMatchHandle(opening.fn, sent[i].param, opening.app_id) = NoHandle

\* C37: when OpenDoc fails with an error that is not an "already open"
\* error, open_doc and open_doc_safe raise that error again and send no
\* recovery request (no GetActiveDoc, no GetDocList); when the recovery is
\* attempted and finds no matching document, the error raised is the
\* original error of OpenDoc.
C37_OriginalErrorReraised ==
    OpenEnded =>
        /\ (OpenDocOutcome # "result" /\ ~SaysAlreadyOpen(OpenDocOutcome)) =>
               /\ open_result.kind = "raised"
               /\ open_result.raised = OpenDocOutcome
               /\ RecoveryRequests = {}
        /\ NothingFound =>
               /\ SaysAlreadyOpen(OpenDocOutcome)
               /\ open_result.kind = "raised"
               /\ open_result.raised = OpenDocOutcome

\* open_doc_safe raised after GetActiveDoc failed and the document list
\* held only another document
C37_Witness ==
    /\ OpenEnded
    /\ NothingFound
    /\ Requests("GetActiveDoc") # {}
    /\ \E i \in Requests("GetDocList") : sent[i].outcome = "result" /\ sent[i].param # <<>>

(***************************************************************************)
(* The handle a request is addressed to                                    *)
(***************************************************************************)
GlobalMethods == {"OpenDoc", "GetDocList", "GetActiveDoc"}
ObjectMethods == {"CreateSessionObject", "GetLayout", "DestroySessionObject"}

\* C38: requests in global scope carry handle -1 and object-scoped
\* requests never do: every OpenDoc, GetDocList and GetActiveDoc request is
\* sent with handle -1, and every CreateSessionObject, GetLayout and
\* DestroySessionObject request with a handle the engine returned before
\* (of the document or of an object), never -1, also after an already-open
\* recovery.
C38_HandleScopes ==
    \A i \in 1..Len(sent) :
        /\ sent[i].method \in GlobalMethods => sent[i].handle = GlobalHandle
        /\ sent[i].method \in ObjectMethods =>
               /\ sent[i].handle # GlobalHandle
               /\ sent[i].handle \in AppHandles \cup ObjectHandles

(***************************************************************************)
(* The field usage map of get_sheets_with_objects                          *)
(***************************************************************************)
\* the fields an object of the samples may use
UsageFields == {"A", "B"}

\* the first processed sheet with id sheet_id that has an object using the
\* field
FirstUse(field_name, sheet_id) ==
    LET at == {n \in 1..Len(detailed_sheets) :
                 /\ detailed_sheets[n].sheet_id = sheet_id
                 /\ Using(field_name, detailed_sheets[n].objects) # <<>>}
    IN IF at = {} THEN 0 ELSE CHOOSE n \in at : \A m \in at : n <= m

\* the entry stands for a processed object of that sheet whose extracted
\* fields hold the field
Processed(field_name, entry) ==
    \E n \in 1..Len(detailed_sheets) :
        /\ detailed_sheets[n].sheet_id = entry.sheet_id
        /\ \E m \in 1..Len(detailed_sheets[n].objects) :
              detailed_sheets[n].objects[m] = entry.object_id
        /\ field_name \in FieldsUsed(entry.object_id)

\* C39: in the field usage map built by get_sheets_with_objects, for every
\* field: each sheet id appears at most once in its sheets list, in the
\* order the sheets were first processed; the sheet id of every object
\* entry is in that sheets list; and every entry stands for a processed
\* object whose extracted fields contain the field.
C39_FieldUsageMap ==
    op = "get_sheets_with_objects" =>
        \A f \in UsageFields :
            LET usage == UsageOf(f, detailed_sheets) IN
            /\ \A i, j \in 1..Len(usage.sheets) :
                   i < j => /\ usage.sheets[i] # usage.sheets[j]
                            /\ FirstUse(f, usage.sheets[i]) > 0
                            /\ FirstUse(f, usage.sheets[i]) < FirstUse(f, usage.sheets[j])
            /\ \A i \in 1..Len(usage.objects) :
                   /\ \E n \in 1..Len(usage.sheets) :
                          usage.sheets[n] = usage.objects[i].sheet_id
                   /\ Processed(f, usage.objects[i])

\* the report is made and a field is used by two objects of one sheet and
\* by an object of another sheet
C39_Witness ==
    /\ WalkReported
    /\ \E f \in UsageFields :
          LET usage == UsageOf(f, detailed_sheets) IN
          /\ Len(usage.sheets) = 2
          /\ Len(usage.objects) = 3

(***************************************************************************)
(* The OAuth token cache of the cloud client (cloud_api.py): one step per  *)
(* call of _get_oauth_token.  Time is counted in seconds.                  *)
(***************************************************************************)
\* how far the clock runs and how many calls are made
MaxTime == 180
MaxTokenCalls == 3

\* the 60 second buffer and the default expires_in of one hour
Buffer == 60
DefaultExpiresIn == 3600

\* what the token endpoint answers: it fails (HTTP status, transport), or
\* sends a document whose access_token may be missing and whose expires_in
\* may be missing, a number, or something that is not a number
Tokens == {"t1", "t2"}
TokenResponses ==
    {[status |-> st, access_token |-> "", expires_in |-> Absent] :
        st \in {"http_error", "transport"}}
    \cup {[status |-> "ok", access_token |-> t, expires_in |-> e] :
            t \in Tokens \cup {""}, e \in {Absent, Null, Num(30), Num(90), Num(120)}}

\* the test of the cache: a token is held and the time is before the
\* expiry less the buffer
CacheValid ==
    oauth_token # "" /\ clock < oauth_token_expires_at - Buffer

TokenCall(kind, value, requested) ==
    [kind |-> kind, value |-> value, requested |-> requested, token |-> oauth_token,
     expires_at |-> oauth_token_expires_at, current_time |-> clock]

\* time passes between two calls
Tick ==
    /\ pc = "idle"
    /\ clock < MaxTime
    /\ \E d \in {30, 60} : clock' = clock + d
    /\ UNCHANGED <<oauth_token, oauth_token_expires_at, token_call>>
    /\ UNCHANGED <<clientVars, pc, op, calls, connVars, opVars, connect_failures,
                   otherThanToken>>

\* _get_oauth_token: the cached token, or a token request and what
\* follows from its response
GetOauthToken ==
    /\ pc = "idle"
    /\ calls < MaxTokenCalls
    /\ calls' = calls + 1
    /\ op' = "_get_oauth_token"
    /\ pc' = "done"
    /\ IF CacheValid
       THEN /\ token_call' = TokenCall("returned", oauth_token, FALSE)
            /\ UNCHANGED <<oauth_token, oauth_token_expires_at>>
       ELSE \E r \in TokenResponses :
            IF r.status # "ok"
            THEN \* raise_for_status or the post raised
                 /\ token_call' = TokenCall("raised", r.status, TRUE)
                 /\ UNCHANGED <<oauth_token, oauth_token_expires_at>>
            ELSE IF r.access_token = ""
            THEN \* raise ValueError("No access_token in OAuth response")
                 /\ token_call' = TokenCall("raised", "ValueError", TRUE)
                 /\ UNCHANGED <<oauth_token, oauth_token_expires_at>>
            ELSE \* self._oauth_token = access_token, then
                 \* self._oauth_token_expires_at = current_time + expires_in
                 /\ oauth_token' = r.access_token
                 /\ IF r.expires_in = Null
                    THEN \* the sum raises TypeError
                         /\ token_call' = TokenCall("raised", "TypeError", TRUE)
                         /\ UNCHANGED oauth_token_expires_at
                    ELSE /\ oauth_token_expires_at' =
                               clock + (IF r.expires_in = Absent THEN DefaultExpiresIn
                                        ELSE r.expires_in.v)
                         /\ token_call' = TokenCall("returned", r.access_token, TRUE)
    /\ UNCHANGED clock
    /\ UNCHANGED <<clientVars, connVars, opVars, connect_failures, otherThanToken>>

\* the call returns to its caller
TokenReturn ==
    /\ pc = "done"
    /\ op = "_get_oauth_token"
    /\ pc' = "idle"
    /\ op' = "none"
    /\ token_call' = NoTokenCall
    /\ UNCHANGED <<oauth_token, oauth_token_expires_at, clock>>
    /\ UNCHANGED <<clientVars, calls, connVars, opVars, connect_failures,
                   otherThanToken>>

InitToken == Init /\ ws_retries = 1

NextToken ==
    \/ Tick
    \/ GetOauthToken
    \/ TokenReturn

SpecToken == InitToken /\ [][NextToken]_vars

\* the running _get_oauth_token has its outcome
TokenCallEnded == op = "_get_oauth_token" /\ pc = "done"

\* at the start of the call the cache held a token and the time was less
\* than its expiry minus 60 seconds
WasValid ==
    /\ token_call.token # ""
    /\ token_call.current_time < token_call.expires_at - Buffer

\* C40: the OAuth token cache never hands out a token within 60 seconds of
\* its recorded expiry: _get_oauth_token returns the cached token without
\* a token request only when the current time is less than the expiry
\* minus 60, otherwise it requests a new one; a failed token request raises
\* and leaves the cached token and its expiry unchanged.
C40_TokenCache ==
    TokenCallEnded =>
        /\ ~token_call.requested <=> WasValid
        /\ ~token_call.requested =>
               token_call.kind = "returned" /\ token_call.value = token_call.token
        /\ token_call.kind = "raised" =>
               /\ token_call.requested
               /\ oauth_token = token_call.token
               /\ oauth_token_expires_at = token_call.expires_at

=============================================================================
